---------------------------- MODULE Spec2Model ----------------------------
(***************************************************************************)
(* A model of the convenient-skiplist SkipList<T>: the node graph (a heap  *)
(* of Node records linked by right/down pointers), the mutators insert,    *)
(* remove and pop_max as actions, and the read-only queries (contains,     *)
(* index_of, at_index, iter_all, range, range_with) as operators over the  *)
(* heap, each following the control flow of its Rust source.               *)
(*                                                                         *)
(* T is modelled by the integers; the elements stored are 1..MaxVal, and   *)
(* query arguments range over 0..MaxVal+1 so that windows below the        *)
(* minimum and above the maximum exist.                                    *)
(*                                                                         *)
(* Addresses.  Box::new returns an arbitrary fresh address.  The model     *)
(* names the address of a node by the cell it is allocated for:            *)
(* <<level, key>>, level 0 for the top row created by new() and levels     *)
(* 1, 2, ... counted from the bottom row for the others, key 0 for a       *)
(* negative sentinel, MaxVal+1 for a positive sentinel and v for a node    *)
(* holding v.  No operator reads an address other than to follow it.       *)
(***************************************************************************)
EXTENDS Integers, Sequences, FiniteSets, TLC

\* Largest element value inserted.
MaxVal == 3
\* Largest height get_level() is allowed to draw (the code's is unbounded).
MaxLevel == 3

Vals == 1..MaxVal
\* Arguments of queries: one value below and one above every element.
Args == 0..(MaxVal + 1)
Levels == 1..MaxLevel

VARIABLES
    heap,       \* allocated nodes: address -> Node
    top_left,   \* SkipList.top_left
    height,     \* SkipList.height
    len,        \* SkipList.len
    panicked,   \* a panic (unreachable!(), unwrap of None, usize underflow) happened
    elems,      \* ghost: the values inserted and not since removed or popped
    balance,    \* ghost: #insert calls that returned true - #remove calls that
                \*        returned true - #elements returned by pop_max
    last,       \* ghost: the last mutator call, its argument and return value
    other       \* a second SkipList, made by from_iter: its fields, and as
                \*        ghost the source sequence it was made from

vars == <<heap, top_left, height, len, panicked, elems, balance, last, other>>
list == <<heap, top_left, height, len>>

-----------------------------------------------------------------------------
(* NodeValue<T> and its comparisons *)

NegInf == [kind |-> "NegInf", v |-> 0]
PosInf == [kind |-> "PosInf", v |-> 0]
Value(x) == [kind |-> "Value", v |-> x]

\* None of an Option<NonNull<Node<T>>>
Null == <<>>

NegKey == 0
PosKey == MaxVal + 1
Addr(lvl, key) == <<lvl, key>>

Node(right, down, value, width) ==
    [right |-> right, down |-> down, value |-> value, width |-> width]

\* impl PartialEq<T> for NodeValue<T>: only a Value equals an item
EqItem(nv, item) == nv.kind = "Value" /\ nv.v = item

\* impl PartialOrd<T> for NodeValue<T>: "Less", "Equal" or "Greater"
CmpItem(nv, item) ==
    IF nv.kind = "NegInf" THEN "Less"
    ELSE IF nv.kind = "PosInf" THEN "Greater"
    ELSE IF nv.v < item THEN "Less"
    ELSE IF nv.v = item THEN "Equal"
    ELSE "Greater"

LtItem(nv, item) == CmpItem(nv, item) = "Less"
GeItem(nv, item) == CmpItem(nv, item) \in {"Greater", "Equal"}
LeItem(nv, item) == CmpItem(nv, item) \in {"Less", "Equal"}

IsPosInf(nv) == nv.kind = "PosInf"

\* Option<T> results
None == [some |-> FALSE, v |-> 0]
Some(x) == [some |-> TRUE, v |-> x]

-----------------------------------------------------------------------------
(* Construction *)

\* SkipList::pos_neg_pair(width), allocated for row lvl: the positive
\* sentinel has neither right nor down, the negative one has no down yet.
PosNegPair(h, lvl, width) ==
    (Addr(lvl, PosKey) :> Node(Null, Null, PosInf, 1))
    @@ (Addr(lvl, NegKey) :> Node(Addr(lvl, PosKey), Null, NegInf, width))
    @@ h

\* Fault injection for AddLevelsLoop: the left sentinel of a new row gets
\* the width len instead of len + 1.
RECURSIVE AddLevelsLoopStaleWidth(_, _, _, _, _, _)
AddLevelsLoopStaleWidth(h, curr_level, i, n, ht, ln) ==
    IF i > n THEN h
    ELSE LET lvl == ht + n - i
             new_level == Addr(lvl, NegKey)
             h1 == PosNegPair(h, lvl, ln)
             h2 == [h1 EXCEPT ![new_level].down = h1[curr_level].down,
                              ![curr_level].down = new_level]
         IN  AddLevelsLoopStaleWidth(h2, new_level, i + 1, n, ht, ln)

\* SkipList::add_levels: the loop body run for i = 1..n.  Each new row is
\* linked in directly beneath curr_level, which then becomes the new row,
\* so the i-th new row ends up at level ht + n - i counted from the bottom
\* (ht = self.height before the call; the top row is not counted).
RECURSIVE AddLevelsLoop(_, _, _, _, _, _)
AddLevelsLoop(h, curr_level, i, n, ht, ln) ==
    IF i > n THEN h
    ELSE LET lvl == ht + n - i
             new_level == Addr(lvl, NegKey)
             h1 == PosNegPair(h, lvl, ln + 1)
             h2 == [h1 EXCEPT ![new_level].down = h1[curr_level].down,
                              ![curr_level].down = new_level]
         IN  AddLevelsLoop(h2, new_level, i + 1, n, ht, ln)

AddLevels(h, top, ht, ln, n) ==
    [heap |-> AddLevelsLoop(h, top, 1, n, ht, ln), height |-> ht + n]

\* Fault injection for NewList: add_levels(1) for add_levels(2).
NewListTwoRows ==
    LET top == Addr(0, NegKey)
        h0 == PosNegPair(<<>>, 0, 1)
        grown == AddLevels(h0, top, 1, 0, 1)
    IN  [heap |-> grown.heap, top_left |-> top, height |-> grown.height, len |-> 0]

\* SkipList::new(): one sentinel row, then add_levels(2)
NewList ==
    LET top == Addr(0, NegKey)
        h0 == PosNegPair(<<>>, 0, 1)
        grown == AddLevels(h0, top, 1, 0, 2)
    IN  [heap |-> grown.heap, top_left |-> top, height |-> grown.height, len |-> 0]

-----------------------------------------------------------------------------
(* Search primitives *)

\* Fault injection for PathFrom: a step right above the bottom row counts
\* one node instead of the width of the link.
RECURSIVE PathFromCountsNodes(_, _, _, _)
PathFromCountsNodes(h, cur, total_width, item) ==
    LET node == h[cur] IN
    IF node.right = Null
    THEN [panic |-> TRUE, path |-> <<>>]
    ELSE IF node.down # Null
    THEN IF LtItem(h[node.right].value, item)
         THEN PathFromCountsNodes(h, node.right, total_width + 1, item)
         ELSE LET rest == PathFromCountsNodes(h, node.down, total_width, item)
              IN  [panic |-> rest.panic,
                   path |-> <<[curr_node |-> cur, curr_width |-> total_width]>>
                            \o rest.path]
    ELSE IF GeItem(h[node.right].value, item)
    THEN [panic |-> FALSE,
          path |-> <<[curr_node |-> cur, curr_width |-> total_width]>>]
    ELSE PathFromCountsNodes(h, node.right, total_width + 1, item)

\* Fault injection for PathFrom: above the bottom row the descent moves
\* right onto a node equal to item instead of stopping left of it.
RECURSIVE PathFromLe(_, _, _, _)
PathFromLe(h, cur, total_width, item) ==
    LET node == h[cur] IN
    IF node.right = Null
    THEN [panic |-> TRUE, path |-> <<>>]
    ELSE IF node.down # Null
    THEN IF LeItem(h[node.right].value, item)
         THEN PathFromLe(h, node.right, total_width + node.width, item)
         ELSE LET rest == PathFromLe(h, node.down, total_width, item)
              IN  [panic |-> rest.panic,
                   path |-> <<[curr_node |-> cur, curr_width |-> total_width]>>
                            \o rest.path]
    ELSE IF GeItem(h[node.right].value, item)
    THEN [panic |-> FALSE,
          path |-> <<[curr_node |-> cur, curr_width |-> total_width]>>]
    ELSE PathFromLe(h, node.right, total_width + 1, item)

\* LeftBiasIterWidth, collected: the NodeWidth yielded for each row, top row
\* first.  panic is the `_ => unreachable!()` arm (a node without a right).
RECURSIVE PathFrom(_, _, _, _)
PathFrom(h, cur, total_width, item) ==
    LET node == h[cur] IN
    IF node.right = Null
    THEN [panic |-> TRUE, path |-> <<>>]
    ELSE IF node.down # Null
    THEN IF LtItem(h[node.right].value, item)
         THEN PathFrom(h, node.right, total_width + node.width, item)
         ELSE LET rest == PathFrom(h, node.down, total_width, item)
              IN  [panic |-> rest.panic,
                   path |-> <<[curr_node |-> cur, curr_width |-> total_width]>>
                            \o rest.path]
    ELSE IF GeItem(h[node.right].value, item)
    THEN [panic |-> FALSE,
          path |-> <<[curr_node |-> cur, curr_width |-> total_width]>>]
    ELSE PathFrom(h, node.right, total_width + 1, item)

\* SkipList::path_to / insert_path
PathTo(h, top, item) == PathFrom(h, top, 0, item)

\* Fault injection for LeftBiasIterNext: above the bottom row the tie-break
\* moves right onto a node equal to item instead of stopping left of it.
RECURSIVE LeftBiasIterNextLe(_, _, _)
LeftBiasIterNextLe(h, cur, item) ==
    LET node == h[cur] IN
    IF node.right = Null
    THEN [panic |-> TRUE, node |-> cur, curr_node |-> cur, finished |-> TRUE]
    ELSE IF node.down # Null
    THEN IF LeItem(h[node.right].value, item)
         THEN LeftBiasIterNextLe(h, node.right, item)
         ELSE [panic |-> FALSE, node |-> cur, curr_node |-> node.down,
               finished |-> FALSE]
    ELSE IF GeItem(h[node.right].value, item)
    THEN [panic |-> FALSE, node |-> cur, curr_node |-> cur, finished |-> TRUE]
    ELSE LeftBiasIterNextLe(h, node.right, item)

\* LeftBiasIter::next on an iterator that is not finished: the node it
\* yields and the iterator's state afterwards.
RECURSIVE LeftBiasIterNext(_, _, _)
LeftBiasIterNext(h, cur, item) ==
    LET node == h[cur] IN
    IF node.right = Null
    THEN [panic |-> TRUE, node |-> cur, curr_node |-> cur, finished |-> TRUE]
    ELSE IF node.down # Null
    THEN IF LtItem(h[node.right].value, item)
         THEN LeftBiasIterNext(h, node.right, item)
         ELSE [panic |-> FALSE, node |-> cur, curr_node |-> node.down,
               finished |-> FALSE]
    ELSE IF GeItem(h[node.right].value, item)
    THEN [panic |-> FALSE, node |-> cur, curr_node |-> cur, finished |-> TRUE]
    ELSE LeftBiasIterNext(h, node.right, item)

\* LeftBiasIter, collected: the node yielded for each row, top row first
RECURSIVE IterLeftFrom(_, _, _)
IterLeftFrom(h, cur, item) ==
    LET it == LeftBiasIterNext(h, cur, item) IN
    IF it.panic THEN [panic |-> TRUE, nodes |-> <<>>]
    ELSE IF it.finished THEN [panic |-> FALSE, nodes |-> <<it.node>>]
    ELSE LET rest == IterLeftFrom(h, it.curr_node, item)
         IN  [panic |-> rest.panic, nodes |-> <<it.node>> \o rest.nodes]

\* SkipList::iter_left
IterLeft(h, top, item) == IterLeftFrom(h, top, item)

\* SkipList::contains: iter_left(item).any(right of the node == item)
RECURSIVE ContainsFrom(_, _, _)
ContainsFrom(h, cur, item) ==
    LET it == LeftBiasIterNext(h, cur, item) IN
    IF it.panic THEN [panic |-> TRUE, ret |-> FALSE]
    ELSE IF h[it.node].right # Null /\ EqItem(h[h[it.node].right].value, item)
    THEN [panic |-> FALSE, ret |-> TRUE]
    ELSE IF it.finished THEN [panic |-> FALSE, ret |-> FALSE]
    ELSE ContainsFrom(h, it.curr_node, item)

ContainsOp(h, top, item) == ContainsFrom(h, top, item)

-----------------------------------------------------------------------------
(* insert *)

\* Fault injection for InsertLoop: the rows above the new column are left
\* without their width increment.
RECURSIVE InsertLoopNoUpperIncrement(_, _, _, _, _, _, _)
InsertLoopNoUpperIncrement(h, path, idx, item, lvl, node_below_me, added) ==
    IF idx = 0 THEN [panic |-> FALSE, heap |-> h]
    ELSE
    LET nw == path[idx]
        total_width == path[Len(path)].curr_width
        h1 == [h EXCEPT ![nw.curr_node].width = @ + 1]
    IN  IF added < lvl
        THEN LET left_node_width == total_width - nw.curr_width + 1
                 new_node_width == h1[nw.curr_node].width - left_node_width
                 new_node == Addr(Len(path) - idx + 1, item)
                 h2 == [h1 EXCEPT ![nw.curr_node].width = left_node_width]
                 h3 == (new_node :> Node(h2[nw.curr_node].right, node_below_me,
                                         Value(item), new_node_width)) @@ h2
                 h4 == [h3 EXCEPT ![nw.curr_node].right = new_node]
             IN  IF total_width < nw.curr_width \/ new_node_width < 0
                 THEN [panic |-> TRUE, heap |-> h]
                 ELSE InsertLoopNoUpperIncrement(h4, path, idx - 1, item, lvl,
                                                 new_node, added + 1)
        ELSE InsertLoopNoUpperIncrement(h, path, idx - 1, item, lvl,
                                        node_below_me, added)

\* Fault injection for InsertLoop: the new node is spliced in one node too
\* far to the right, after the path node's right neighbour.
RECURSIVE InsertLoopSplicesTooFar(_, _, _, _, _, _, _)
InsertLoopSplicesTooFar(h, path, idx, item, lvl, node_below_me, added) ==
    IF idx = 0 THEN [panic |-> FALSE, heap |-> h]
    ELSE
    LET nw == path[idx]
        total_width == path[Len(path)].curr_width
        h1 == [h EXCEPT ![nw.curr_node].width = @ + 1]
    IN  IF added < lvl
        THEN LET left_node_width == total_width - nw.curr_width + 1
                 new_node_width == h1[nw.curr_node].width - left_node_width
                 new_node == Addr(Len(path) - idx + 1, item)
                 after == h1[nw.curr_node].right
                 h2 == [h1 EXCEPT ![nw.curr_node].width = left_node_width]
                 h3 == (new_node :> Node(h2[after].right, node_below_me,
                                         Value(item), new_node_width)) @@ h2
                 h4 == [h3 EXCEPT ![after].right = new_node]
             IN  IF total_width < nw.curr_width \/ new_node_width < 0
                 THEN [panic |-> TRUE, heap |-> h]
                 ELSE InsertLoopSplicesTooFar(h4, path, idx - 1, item, lvl,
                                              new_node, added + 1)
        ELSE InsertLoopSplicesTooFar(h1, path, idx - 1, item, lvl,
                                     node_below_me, added)

\* Fault injection for InsertLoop: the new node is not linked down to the
\* node created in the row below.
RECURSIVE InsertLoopNoDown(_, _, _, _, _, _, _)
InsertLoopNoDown(h, path, idx, item, lvl, node_below_me, added) ==
    IF idx = 0 THEN [panic |-> FALSE, heap |-> h]
    ELSE
    LET nw == path[idx]
        total_width == path[Len(path)].curr_width
        h1 == [h EXCEPT ![nw.curr_node].width = @ + 1]
    IN  IF added < lvl
        THEN LET left_node_width == total_width - nw.curr_width + 1
                 new_node_width == h1[nw.curr_node].width - left_node_width
                 new_node == Addr(Len(path) - idx + 1, item)
                 h2 == [h1 EXCEPT ![nw.curr_node].width = left_node_width]
                 h3 == (new_node :> Node(h2[nw.curr_node].right, Null,
                                         Value(item), new_node_width)) @@ h2
                 h4 == [h3 EXCEPT ![nw.curr_node].right = new_node]
             IN  IF total_width < nw.curr_width \/ new_node_width < 0
                 THEN [panic |-> TRUE, heap |-> h]
                 ELSE InsertLoopNoDown(h4, path, idx - 1, item, lvl,
                                       new_node, added + 1)
        ELSE InsertLoopNoDown(h1, path, idx - 1, item, lvl,
                              node_below_me, added)

\* The body of the loop of insert over the reversed path: idx runs from
\* Len(path) (the bottom row) down to 1 (the top row).
RECURSIVE InsertLoop(_, _, _, _, _, _, _)
InsertLoop(h, path, idx, item, lvl, node_below_me, added) ==
    IF idx = 0 THEN [panic |-> FALSE, heap |-> h]
    ELSE
    LET nw == path[idx]
        total_width == path[Len(path)].curr_width
        h1 == [h EXCEPT ![nw.curr_node].width = @ + 1]
    IN  IF added < lvl
        THEN LET left_node_width == total_width - nw.curr_width + 1
                 new_node_width == h1[nw.curr_node].width - left_node_width
                 new_node == Addr(Len(path) - idx + 1, item)
                 h2 == [h1 EXCEPT ![nw.curr_node].width = left_node_width]
                 h3 == (new_node :> Node(h2[nw.curr_node].right, node_below_me,
                                         Value(item), new_node_width)) @@ h2
                 h4 == [h3 EXCEPT ![nw.curr_node].right = new_node]
             IN  IF total_width < nw.curr_width \/ new_node_width < 0
                 THEN [panic |-> TRUE, heap |-> h]
                 ELSE InsertLoop(h4, path, idx - 1, item, lvl, new_node, added + 1)
        ELSE InsertLoop(h1, path, idx - 1, item, lvl, node_below_me, added)

\* Fault injection for InsertOp: the level is drawn and the rows are added
\* before the duplicate check.
InsertOpGrowsFirst(h, top, ht, ln, item, lvl) ==
    LET additional_height_req == (lvl - ht) + 1
        grown == IF additional_height_req > 0
                 THEN AddLevels(h, top, ht, ln, additional_height_req)
                 ELSE [heap |-> h, height |-> ht]
        c == ContainsOp(grown.heap, top, item)
        p == PathTo(grown.heap, top, item)
        r == InsertLoop(grown.heap, p.path, Len(p.path), item, lvl, Null, 0)
    IN  IF c.panic
        THEN [panic |-> TRUE, ret |-> FALSE, heap |-> h, height |-> ht, len |-> ln]
        ELSE IF c.ret
        THEN [panic |-> FALSE, ret |-> FALSE, heap |-> grown.heap,
              height |-> grown.height, len |-> ln]
        ELSE IF p.panic \/ r.panic
        THEN [panic |-> TRUE, ret |-> FALSE, heap |-> h, height |-> ht, len |-> ln]
        ELSE [panic |-> FALSE, ret |-> TRUE, heap |-> r.heap,
              height |-> grown.height, len |-> ln + 1]

\* Fault injection for InsertOp: rows are added only when the drawn height
\* exceeds the number of rows, so that no row is kept free above the column.
InsertOpNoSpareRow(h, top, ht, ln, item, lvl) ==
    LET c == ContainsOp(h, top, item) IN
    IF c.panic
    THEN [panic |-> TRUE, ret |-> FALSE, heap |-> h, height |-> ht, len |-> ln]
    ELSE IF c.ret
    THEN [panic |-> FALSE, ret |-> FALSE, heap |-> h, height |-> ht, len |-> ln]
    ELSE
    LET additional_height_req == lvl - ht
        grown == IF additional_height_req > 0
                 THEN AddLevels(h, top, ht, ln, additional_height_req)
                 ELSE [heap |-> h, height |-> ht]
        p == PathTo(grown.heap, top, item)
        r == InsertLoop(grown.heap, p.path, Len(p.path), item, lvl, Null, 0)
    IN  IF p.panic \/ r.panic
        THEN [panic |-> TRUE, ret |-> FALSE, heap |-> h, height |-> ht, len |-> ln]
        ELSE [panic |-> FALSE, ret |-> TRUE, heap |-> r.heap,
              height |-> grown.height, len |-> ln + 1]

\* SkipList::insert with get_level() = lvl
InsertOp(h, top, ht, ln, item, lvl) ==
    LET c == ContainsOp(h, top, item) IN
    IF c.panic
    THEN [panic |-> TRUE, ret |-> FALSE, heap |-> h, height |-> ht, len |-> ln]
    ELSE IF c.ret
    THEN [panic |-> FALSE, ret |-> FALSE, heap |-> h, height |-> ht, len |-> ln]
    ELSE
    LET additional_height_req == (lvl - ht) + 1
        grown == IF additional_height_req > 0
                 THEN AddLevels(h, top, ht, ln, additional_height_req)
                 ELSE [heap |-> h, height |-> ht]
        p == PathTo(grown.heap, top, item)
        r == InsertLoop(grown.heap, p.path, Len(p.path), item, lvl, Null, 0)
    IN  IF p.panic \/ r.panic
        THEN [panic |-> TRUE, ret |-> FALSE, heap |-> h, height |-> ht, len |-> ln]
        ELSE [panic |-> FALSE, ret |-> TRUE, heap |-> r.heap,
              height |-> grown.height, len |-> ln + 1]

-----------------------------------------------------------------------------
(* remove *)

\* drop(Box::from_raw(p)): the node leaves the heap
Free(h, p) == [a \in (DOMAIN h) \ {p} |-> h[a]]

\* Fault injection for RemoveLoop: the width of the node left of the target
\* is not decremented.
RECURSIVE RemoveLoopKeepsWidth(_, _, _)
RemoveLoopKeepsWidth(h, cur, item) ==
    LET it == LeftBiasIterNext(h, cur, item) IN
    IF it.panic \/ h[it.node].width < 1 \/ h[it.node].right = Null
    THEN [panic |-> TRUE, heap |-> h]
    ELSE
    LET node == it.node
        right == h[node].right
        h2 == IF ~EqItem(h[right].value, item)
              THEN h
              ELSE Free([h EXCEPT ![node].width = @ + h[right].width,
                                  ![node].right = h[right].right],
                        right)
    IN  IF it.finished THEN [panic |-> FALSE, heap |-> h2]
        ELSE RemoveLoopKeepsWidth(h2, it.curr_node, item)

\* Fault injection for RemoveLoop: the width of the unlinked neighbour is
\* not added to the node left of it.
RECURSIVE RemoveLoopDropsWidth(_, _, _)
RemoveLoopDropsWidth(h, cur, item) ==
    LET it == LeftBiasIterNext(h, cur, item) IN
    IF it.panic \/ h[it.node].width < 1 \/ h[it.node].right = Null
    THEN [panic |-> TRUE, heap |-> h]
    ELSE
    LET node == it.node
        right == h[node].right
        h1 == [h EXCEPT ![node].width = @ - 1]
        h2 == IF ~EqItem(h[right].value, item)
              THEN h1
              ELSE Free([h1 EXCEPT ![node].right = h[right].right], right)
    IN  IF it.finished THEN [panic |-> FALSE, heap |-> h2]
        ELSE RemoveLoopDropsWidth(h2, it.curr_node, item)

\* The loop of remove over the lazy iter_left(item): each node the iterator
\* yields is updated before the iterator is advanced again.
RECURSIVE RemoveLoop(_, _, _)
RemoveLoop(h, cur, item) ==
    LET it == LeftBiasIterNext(h, cur, item) IN
    IF it.panic \/ h[it.node].width < 1 \/ h[it.node].right = Null
    THEN [panic |-> TRUE, heap |-> h]
    ELSE
    LET node == it.node
        right == h[node].right
        h1 == [h EXCEPT ![node].width = @ - 1]
        h2 == IF ~EqItem(h[right].value, item)
              THEN h1
              ELSE Free([h1 EXCEPT ![node].width = @ + h[right].width,
                                   ![node].right = h[right].right],
                        right)
    IN  IF it.finished THEN [panic |-> FALSE, heap |-> h2]
        ELSE RemoveLoop(h2, it.curr_node, item)

\* Fault injection for RemoveOp: len is not decremented.
RemoveOpKeepsLen(h, top, ln, item) ==
    LET c == ContainsOp(h, top, item) IN
    IF c.panic THEN [panic |-> TRUE, ret |-> FALSE, heap |-> h, len |-> ln]
    ELSE IF ~c.ret THEN [panic |-> FALSE, ret |-> FALSE, heap |-> h, len |-> ln]
    ELSE LET r == RemoveLoop(h, top, item) IN
         IF r.panic \/ ln < 1
         THEN [panic |-> TRUE, ret |-> FALSE, heap |-> h, len |-> ln]
         ELSE [panic |-> FALSE, ret |-> TRUE, heap |-> r.heap, len |-> ln]

\* Fault injection for RemoveOp: the early return for an absent item is
\* missing.
RemoveOpUnchecked(h, top, ln, item) ==
    LET r == RemoveLoop(h, top, item) IN
    IF r.panic \/ ln < 1
    THEN [panic |-> TRUE, ret |-> FALSE, heap |-> h, len |-> ln]
    ELSE [panic |-> FALSE, ret |-> TRUE, heap |-> r.heap, len |-> ln - 1]

\* SkipList::remove
RemoveOp(h, top, ln, item) ==
    LET c == ContainsOp(h, top, item) IN
    IF c.panic THEN [panic |-> TRUE, ret |-> FALSE, heap |-> h, len |-> ln]
    ELSE IF ~c.ret THEN [panic |-> FALSE, ret |-> FALSE, heap |-> h, len |-> ln]
    ELSE LET r == RemoveLoop(h, top, item) IN
         IF r.panic \/ ln < 1
         THEN [panic |-> TRUE, ret |-> FALSE, heap |-> h, len |-> ln]
         ELSE [panic |-> FALSE, ret |-> TRUE, heap |-> r.heap, len |-> ln - 1]

-----------------------------------------------------------------------------
(* Rank and index queries *)

\* SkipList::index_of: the last NodeWidth of path_to(item)
IndexOfOp(h, top, item) ==
    LET p == PathTo(h, top, item) IN
    IF p.panic THEN [panic |-> TRUE, ret |-> None]
    ELSE IF Len(p.path) = 0 THEN [panic |-> FALSE, ret |-> None]
    ELSE LET node == p.path[Len(p.path)] IN
         IF h[node.curr_node].right = Null THEN [panic |-> TRUE, ret |-> None]
         ELSE IF EqItem(h[h[node.curr_node].right].value, item)
         THEN [panic |-> FALSE, ret |-> Some(node.curr_width)]
         ELSE [panic |-> FALSE, ret |-> None]

\* Fault injection for AtIndexLoop: the link is followed only when its width
\* is strictly smaller than the distance left.
RECURSIVE AtIndexLoopStrict(_, _, _)
AtIndexLoopStrict(h, curr_node, distance_left) ==
    IF distance_left = 0
    THEN IF h[curr_node].value.kind = "Value"
         THEN [panic |-> FALSE, ret |-> Some(h[curr_node].value.v)]
         ELSE [panic |-> TRUE, ret |-> None]
    ELSE IF h[curr_node].width < distance_left
    THEN IF h[curr_node].right = Null
         THEN [panic |-> TRUE, ret |-> None]
         ELSE AtIndexLoopStrict(h, h[curr_node].right,
                                distance_left - h[curr_node].width)
    ELSE IF h[curr_node].down # Null
    THEN AtIndexLoopStrict(h, h[curr_node].down, distance_left)
    ELSE [panic |-> TRUE, ret |-> None]

\* The loop of at_index
RECURSIVE AtIndexLoop(_, _, _)
AtIndexLoop(h, curr_node, distance_left) ==
    IF distance_left = 0
    THEN IF h[curr_node].value.kind = "Value"
         THEN [panic |-> FALSE, ret |-> Some(h[curr_node].value.v)]
         ELSE [panic |-> TRUE, ret |-> None]
    ELSE IF h[curr_node].width <= distance_left
    THEN IF h[curr_node].right = Null
         THEN [panic |-> TRUE, ret |-> None]
         ELSE AtIndexLoop(h, h[curr_node].right,
                          distance_left - h[curr_node].width)
    ELSE IF h[curr_node].down # Null
    THEN AtIndexLoop(h, h[curr_node].down, distance_left)
    ELSE [panic |-> TRUE, ret |-> None]

\* The nodes the loop of at_index has as curr_node, in order, up to the
\* return or the panic
RECURSIVE AtIndexVisited(_, _, _)
AtIndexVisited(h, curr_node, distance_left) ==
    IF distance_left = 0 THEN <<curr_node>>
    ELSE IF h[curr_node].width <= distance_left
    THEN IF h[curr_node].right = Null
         THEN <<curr_node>>
         ELSE <<curr_node>> \o AtIndexVisited(h, h[curr_node].right,
                                   distance_left - h[curr_node].width)
    ELSE IF h[curr_node].down # Null
    THEN <<curr_node>> \o AtIndexVisited(h, h[curr_node].down, distance_left)
    ELSE <<curr_node>>

\* SkipList::at_index
AtIndexOp(h, top, ln, index) ==
    IF index >= ln THEN [panic |-> FALSE, ret |-> None]
    ELSE AtIndexLoop(h, top, index + 1)

-----------------------------------------------------------------------------
(* Iterators *)

\* while let Some(down) = curr_node.down { curr_node = down }
RECURSIVE Descend(_, _)
Descend(h, cur) == IF h[cur].down # Null THEN Descend(h, h[cur].down) ELSE cur

\* IterAll::next on the iterator state st = [curr_node, at_bottom, finished]:
\* the item returned and the state afterwards.
IterAllNext(h, st) ==
    LET stop(c) == [panic |-> FALSE, item |-> None,
                    st |-> [curr_node |-> c, at_bottom |-> TRUE,
                            finished |-> st.finished]]
        boom == [panic |-> TRUE, item |-> None, st |-> st]
    IN
    IF st.finished THEN [panic |-> FALSE, item |-> None, st |-> st]
    ELSE
    LET bottom == Descend(h, st.curr_node)
        c0 == IF st.at_bottom THEN st.curr_node ELSE h[bottom].right
    IN  IF c0 = Null THEN boom
        ELSE IF h[c0].value.kind = "PosInf" THEN stop(c0)
        ELSE
        LET c1 == IF h[c0].value.kind = "NegInf" THEN h[c0].right ELSE c0 IN
        IF c1 = Null THEN boom
        ELSE IF h[c1].right = Null \/ h[c1].value.kind # "Value" THEN boom
        ELSE IF h[h[c1].right].value = PosInf
        THEN [panic |-> FALSE, item |-> Some(h[c1].value.v),
              st |-> [curr_node |-> c1, at_bottom |-> TRUE, finished |-> TRUE]]
        ELSE [panic |-> FALSE, item |-> Some(h[c1].value.v),
              st |-> [curr_node |-> h[c1].right, at_bottom |-> TRUE,
                      finished |-> FALSE]]

RECURSIVE IterAllCollect(_, _)
IterAllCollect(h, st) ==
    LET n == IterAllNext(h, st) IN
    IF n.panic THEN [panic |-> TRUE, items |-> <<>>]
    ELSE IF ~n.item.some THEN [panic |-> FALSE, items |-> <<>>]
    ELSE LET rest == IterAllCollect(h, n.st)
         IN  [panic |-> rest.panic, items |-> <<n.item.v>> \o rest.items]

\* SkipList::iter_all, collected
IterAllOp(h, top) ==
    IterAllCollect(h, [curr_node |-> top, at_bottom |-> FALSE, finished |-> FALSE])

\* IntoIter::next on the iterator state st = [curr_node, finished]: the
\* item returned and the state afterwards.  panic is get_value() called on
\* a sentinel (the unreachable!() arm of NodeValue::get_value).
IntoIterNext(h, st) ==
    IF st.finished THEN [panic |-> FALSE, item |-> None, st |-> st]
    ELSE IF h[st.curr_node].right # Null
    THEN LET right == h[st.curr_node].right
             st1 == [curr_node |-> right, finished |-> FALSE]
         IN  IF h[right].value.kind = "Value"
             THEN [panic |-> FALSE, item |-> Some(h[right].value.v), st |-> st1]
             ELSE [panic |-> TRUE, item |-> None, st |-> st1]
    ELSE LET st1 == [curr_node |-> st.curr_node, finished |-> TRUE]
         IN  IF h[st.curr_node].value.kind = "Value"
             THEN [panic |-> FALSE, item |-> Some(h[st.curr_node].value.v),
                   st |-> st1]
             ELSE [panic |-> TRUE, item |-> None, st |-> st1]

\* The items IntoIter yields up to the first None or the panic
RECURSIVE IntoIterCollect(_, _)
IntoIterCollect(h, st) ==
    LET n == IntoIterNext(h, st) IN
    IF n.panic THEN [panic |-> TRUE, items |-> <<>>]
    ELSE IF ~n.item.some THEN [panic |-> FALSE, items |-> <<>>]
    ELSE LET rest == IntoIterCollect(h, n.st)
         IN  [panic |-> rest.panic, items |-> <<n.item.v>> \o rest.items]

\* IntoIterator for SkipList: into_iter(), collected; the iterator starts
\* at top_left
IntoIterOp(h, top) ==
    IntoIterCollect(h, [curr_node |-> top, finished |-> FALSE])

\* Step 1 of SkipListRange::next (while !self.at_bottom): the node the
\* descent ends on, one step right of the last node smaller than start.
RECURSIVE RangeDescend(_, _, _)
RangeDescend(h, cur, start) ==
    LET node == h[cur] IN
    IF node.right = Null THEN [panic |-> TRUE, curr_node |-> cur]
    ELSE IF LtItem(h[node.right].value, start)
    THEN RangeDescend(h, node.right, start)
    ELSE IF node.down # Null
    THEN RangeDescend(h, node.down, start)
    ELSE [panic |-> FALSE, curr_node |-> node.right]

\* Fault injection for RangeScan: the end bound is exclusive.
RECURSIVE RangeScanExclusive(_, _, _)
RangeScanExclusive(h, cur, end) ==
    IF ~LtItem(h[cur].value, end) THEN [panic |-> FALSE, items |-> <<>>]
    ELSE IF h[cur].right = Null \/ h[cur].value.kind # "Value"
    THEN [panic |-> TRUE, items |-> <<>>]
    ELSE LET rest == RangeScanExclusive(h, h[cur].right, end)
         IN  [panic |-> rest.panic, items |-> <<h[cur].value.v>> \o rest.items]

\* The rest of SkipListRange::next, called until it returns None
RECURSIVE RangeScan(_, _, _)
RangeScan(h, cur, end) ==
    IF ~LeItem(h[cur].value, end) THEN [panic |-> FALSE, items |-> <<>>]
    ELSE IF h[cur].right = Null \/ h[cur].value.kind # "Value"
    THEN [panic |-> TRUE, items |-> <<>>]
    ELSE LET rest == RangeScan(h, h[cur].right, end)
         IN  [panic |-> rest.panic, items |-> <<h[cur].value.v>> \o rest.items]

\* SkipList::range(start, end), collected
RangeOp(h, top, start, end) ==
    LET d == RangeDescend(h, top, start) IN
    IF d.panic THEN [panic |-> TRUE, items |-> <<>>]
    ELSE RangeScan(h, d.curr_node, end)

\* IterRangeWith::item_smaller_than_range / item_in_range for the classifier
\* f, a function from values to RangeHint
ItemSmallerThanRange(f, nv) ==
    IF nv.kind = "NegInf" THEN TRUE
    ELSE IF nv.kind = "PosInf" THEN FALSE
    ELSE f[nv.v] = "SmallerThanRange"

ItemInRange(f, nv) ==
    IF nv.kind = "NegInf" THEN FALSE
    ELSE IF nv.kind = "PosInf" THEN FALSE
    ELSE f[nv.v] = "InRange"

\* Fault injection for RangeWithDescend: the bottom row is not scanned for
\* elements smaller than the range.
RECURSIVE RangeWithDescendNoBottomScan(_, _, _)
RangeWithDescendNoBottomScan(h, cur, f) ==
    LET node == h[cur] IN
    IF node.right = Null THEN [panic |-> TRUE, curr_node |-> cur]
    ELSE IF node.down # Null
    THEN IF ItemSmallerThanRange(f, h[node.right].value)
         THEN RangeWithDescendNoBottomScan(h, node.right, f)
         ELSE RangeWithDescendNoBottomScan(h, node.down, f)
    ELSE [panic |-> FALSE, curr_node |-> node.right]

\* Step 1 of IterRangeWith::next
RECURSIVE RangeWithDescend(_, _, _)
RangeWithDescend(h, cur, f) ==
    LET node == h[cur] IN
    IF node.right = Null THEN [panic |-> TRUE, curr_node |-> cur]
    ELSE IF ItemSmallerThanRange(f, h[node.right].value)
    THEN RangeWithDescend(h, node.right, f)
    ELSE IF node.down # Null
    THEN RangeWithDescend(h, node.down, f)
    ELSE [panic |-> FALSE, curr_node |-> node.right]

\* The rest of IterRangeWith::next, called until it returns None
RECURSIVE RangeWithScan(_, _, _)
RangeWithScan(h, cur, f) ==
    IF ~ItemInRange(f, h[cur].value) THEN [panic |-> FALSE, items |-> <<>>]
    ELSE IF h[cur].right = Null
    THEN [panic |-> TRUE, items |-> <<>>]
    ELSE LET rest == RangeWithScan(h, h[cur].right, f)
         IN  [panic |-> rest.panic, items |-> <<h[cur].value.v>> \o rest.items]

\* SkipList::range_with(f), collected
RangeWithOp(h, top, f) ==
    LET d == RangeWithDescend(h, top, f) IN
    IF d.panic THEN [panic |-> TRUE, items |-> <<>>]
    ELSE RangeWithScan(h, d.curr_node, f)

\* IterRangeWith::item_smaller_than_range / item_in_range for a classifier
\* that may give any answer on any call: the set of results one call can have.
\* The sentinels are answered without calling the classifier.
Booleans == {TRUE, FALSE}

SmallerAnswersSwapped(nv) ==
    IF nv.kind = "NegInf" THEN {FALSE}
    ELSE IF nv.kind = "PosInf" THEN {TRUE}
    ELSE Booleans

SmallerAnswers(nv) ==
    IF nv.kind = "NegInf" THEN {TRUE}
    ELSE IF nv.kind = "PosInf" THEN {FALSE}
    ELSE Booleans

InRangeAnswers(nv) ==
    IF nv.kind = "NegInf" THEN {FALSE}
    ELSE IF nv.kind = "PosInf" THEN {FALSE}
    ELSE Booleans

\* Step 1 of IterRangeWith::next under such a classifier: the set of its
\* outcomes, one for every way the calls can answer. A node without a right
\* link falls to the unreachable!() arm.
RECURSIVE RangeWithDescendAny(_, _)
RangeWithDescendAny(h, cur) ==
    LET node == h[cur] IN
    IF node.right = Null THEN {[panic |-> TRUE, curr_node |-> cur]}
    ELSE UNION {
           IF smaller THEN RangeWithDescendAny(h, node.right)
           ELSE IF node.down # Null THEN RangeWithDescendAny(h, node.down)
           ELSE {[panic |-> FALSE, curr_node |-> node.right]}
         : smaller \in SmallerAnswers(h[node.right].value)}

\* The rest of IterRangeWith::next under such a classifier, called until it
\* returns None: the set of the sequences it can yield
RECURSIVE RangeWithScanAny(_, _)
RangeWithScanAny(h, cur) ==
    UNION {
      IF ~inside THEN {[panic |-> FALSE, items |-> <<>>]}
      ELSE IF h[cur].right = Null \/ h[cur].value.kind # "Value"
      THEN {[panic |-> TRUE, items |-> <<>>]}
      ELSE {[panic |-> rest.panic, items |-> <<h[cur].value.v>> \o rest.items]
            : rest \in RangeWithScanAny(h, h[cur].right)}
    : inside \in InRangeAnswers(h[cur].value)}

\* SkipList::range_with(f), collected, for such an f: every outcome
RangeWithAnyOp(h, top) ==
    UNION {
      IF d.panic THEN {[panic |-> TRUE, items |-> <<>>]}
      ELSE RangeWithScanAny(h, d.curr_node)
    : d \in RangeWithDescendAny(h, top)}

\* VerticalIter, collected: curr_node and every node below it
RECURSIVE VerticalIter(_, _)
VerticalIter(h, cur) ==
    IF h[cur].down = Null THEN <<cur>>
    ELSE <<cur>> \o VerticalIter(h, h[cur].down)

\* Fault injection for NodeRightIter: the node the iterator starts on is
\* skipped.
RECURSIVE NodeRightIterSkipsFirst(_, _)
NodeRightIterSkipsFirst(h, cur) ==
    LET nxt == h[cur].right IN
    IF nxt = Null THEN [panic |-> FALSE, items |-> <<>>]
    ELSE IF h[nxt].right = Null THEN [panic |-> FALSE, items |-> <<>>]
    ELSE LET rest == NodeRightIterSkipsFirst(h, nxt)
         IN  [panic |-> rest.panic, items |-> <<h[nxt].value.v>> \o rest.items]

\* NodeRightIter, collected: the values from curr_node up to, not including,
\* the node that has no right
RECURSIVE NodeRightIter(_, _)
NodeRightIter(h, cur) ==
    IF h[cur].right = Null THEN [panic |-> FALSE, items |-> <<>>]
    ELSE IF h[cur].value.kind # "Value" THEN [panic |-> TRUE, items |-> <<>>]
    ELSE LET rest == NodeRightIter(h, h[cur].right)
         IN  [panic |-> rest.panic, items |-> <<h[cur].value.v>> \o rest.items]

-----------------------------------------------------------------------------
(* SkipListIndexRange *)

\* std::ops::Bound<usize>
Unbounded == [kind |-> "Unbounded", idx |-> 0]
Included(i) == [kind |-> "Included", idx |-> i]
Excluded(i) == [kind |-> "Excluded", idx |-> i]

\* The loop of SkipListIndexRange::new for an Included or Excluded start
\* bound: curr_index counts the widths crossed from the negative sentinel
RECURSIVE IndexRangeStart(_, _, _, _)
IndexRangeStart(h, curr_node, curr_index, bound) ==
    LET node == h[curr_node]
        stop(p) == [panic |-> FALSE, curr_node |-> p, curr_index |-> curr_index]
    IN
    IF node.right # Null /\ node.down # Null
    THEN LET idx == bound.idx + 1 IN
         IF curr_index = idx
         THEN IF bound.kind = "Included" THEN stop(curr_node)
              ELSE stop(node.right)
         ELSE IF curr_index + node.width <= idx
         THEN IndexRangeStart(h, node.right, curr_index + node.width, bound)
         ELSE IndexRangeStart(h, node.down, curr_index, bound)
    ELSE IF node.right # Null
    THEN IF curr_index = bound.idx + 1
         THEN IF bound.kind = "Included" THEN stop(curr_node)
              ELSE stop(node.right)
         ELSE IndexRangeStart(h, node.right,
                              curr_index + h[node.right].width, bound)
    ELSE IF node.down = Null THEN stop(curr_node)
    ELSE [panic |-> TRUE, curr_node |-> curr_node, curr_index |-> curr_index]

\* Fault injection for IndexRangeNew: curr_index is kept as the count of
\* widths crossed, without the saturating_sub(1) that turns it into an index.
IndexRangeNewKeepsPosition(h, top, start) ==
    IF start.kind = "Unbounded"
    THEN LET bottom == Descend(h, top) IN
         IF h[bottom].right = Null
         THEN [panic |-> TRUE, curr_node |-> bottom, curr_index |-> 0]
         ELSE [panic |-> FALSE, curr_node |-> Descend(h, h[bottom].right),
               curr_index |-> 0]
    ELSE LET r == IndexRangeStart(h, top, 0, start) IN
         IF r.panic THEN r
         ELSE [panic |-> FALSE, curr_node |-> Descend(h, r.curr_node),
               curr_index |-> r.curr_index]

\* SkipListIndexRange::new
IndexRangeNew(h, top, start) ==
    IF start.kind = "Unbounded"
    THEN LET bottom == Descend(h, top) IN
         IF h[bottom].right = Null
         THEN [panic |-> TRUE, curr_node |-> bottom, curr_index |-> 0]
         ELSE [panic |-> FALSE, curr_node |-> Descend(h, h[bottom].right),
               curr_index |-> 0]
    ELSE LET r == IndexRangeStart(h, top, 0, start) IN
         IF r.panic THEN r
         ELSE [panic |-> FALSE, curr_node |-> Descend(h, r.curr_node),
               curr_index |-> IF r.curr_index >= 1 THEN r.curr_index - 1
                              ELSE 0]

\* Fault injection for IndexRangeCollect: the right link is not tested with
\* `?` before the value is read.
RECURSIVE IndexRangeCollectNoRightTest(_, _, _, _)
IndexRangeCollectNoRightTest(h, curr_node, curr_index, end) ==
    LET node == h[curr_node] IN
    IF node.down # Null THEN [panic |-> TRUE, items |-> <<>>]
    ELSE IF end.kind = "Included" /\ curr_index > end.idx
    THEN [panic |-> FALSE, items |-> <<>>]
    ELSE IF end.kind = "Excluded" /\ curr_index = end.idx
    THEN [panic |-> FALSE, items |-> <<>>]
    ELSE IF node.value.kind # "Value" THEN [panic |-> TRUE, items |-> <<>>]
    ELSE LET ci == IF end.kind = "Unbounded" THEN curr_index
                   ELSE curr_index + 1
             rest == IndexRangeCollectNoRightTest(h, node.right, ci, end)
         IN  [panic |-> rest.panic, items |-> <<node.value.v>> \o rest.items]

\* SkipListIndexRange::next, called until it returns None
RECURSIVE IndexRangeCollect(_, _, _, _)
IndexRangeCollect(h, curr_node, curr_index, end) ==
    LET node == h[curr_node] IN
    IF node.down # Null THEN [panic |-> TRUE, items |-> <<>>]
    ELSE IF node.right = Null THEN [panic |-> FALSE, items |-> <<>>]
    ELSE IF end.kind = "Included" /\ curr_index > end.idx
    THEN [panic |-> FALSE, items |-> <<>>]
    ELSE IF end.kind = "Excluded" /\ curr_index = end.idx
    THEN [panic |-> FALSE, items |-> <<>>]
    ELSE IF node.value.kind # "Value" THEN [panic |-> TRUE, items |-> <<>>]
    ELSE LET ci == IF end.kind = "Unbounded" THEN curr_index
                   ELSE curr_index + 1
             rest == IndexRangeCollect(h, node.right, ci, end)
         IN  [panic |-> rest.panic, items |-> <<node.value.v>> \o rest.items]

\* SkipList::index_range, collected: the iterator is made from top_left
IndexRangeOp(h, top, start, end) ==
    LET it == IndexRangeNew(h, top, start) IN
    IF it.panic THEN [panic |-> TRUE, items |-> <<>>]
    ELSE IndexRangeCollect(h, it.curr_node, it.curr_index, end)

-----------------------------------------------------------------------------
(* pop_max *)

\* Fault injection for ClearRightLoop: only the first node to the right is
\* unlinked and freed (an `if let` for the `while let`).
ClearRightOnce(h, p) ==
    LET right == h[p].right IN
    IF right = Null THEN h
    ELSE IF IsPosInf(h[right].value) THEN h
    ELSE Free([h EXCEPT ![p].right = h[right].right], right)

\* Fault injection for ClearRightLoop: the nodes are unlinked but not freed.
RECURSIVE ClearRightLoopLeaks(_, _)
ClearRightLoopLeaks(h, p) ==
    LET right == h[p].right IN
    IF right = Null THEN h
    ELSE IF IsPosInf(h[right].value) THEN h
    ELSE ClearRightLoopLeaks([h EXCEPT ![p].right = h[right].right], p)

\* The loop of Node::clear_right: unlink and free every node right of p up
\* to the positive sentinel
RECURSIVE ClearRightLoop(_, _)
ClearRightLoop(h, p) ==
    LET right == h[p].right IN
    IF right = Null THEN h
    ELSE IF IsPosInf(h[right].value) THEN h
    ELSE ClearRightLoop(Free([h EXCEPT ![p].right = h[right].right], right), p)

\* Node::clear_right
ClearRight(h, p) == ClearRightLoop([h EXCEPT ![p].width = 1], p)

\* Fault injection for PopMaxLoop: the widths of the upper rows are left at
\* the 1 clear_right sets.
RECURSIVE PopMaxLoopUnitWidth(_, _, _, _, _, _)
PopMaxLoopUnitWidth(h, frontier, idx, last_node, last_width, jumped_left) ==
    IF idx = 0 THEN [panic |-> FALSE, heap |-> h]
    ELSE
    LET nw == frontier[idx]
        h1 == ClearRight(h, nw.curr_node)
    IN  PopMaxLoopUnitWidth(h1, frontier, idx - 1, last_node, last_width,
                            jumped_left)

\* The loop of pop_max over frontier.into_iter().rev().skip(1): idx runs from
\* Len(frontier) - 1 down to 1; last_node is last_value.curr_node.
RECURSIVE PopMaxLoop(_, _, _, _, _, _)
PopMaxLoop(h, frontier, idx, last_node, last_width, jumped_left) ==
    IF idx = 0 THEN [panic |-> FALSE, heap |-> h]
    ELSE
    LET nw == frontier[idx]
        differs == h[nw.curr_node].value # h[last_node].value
        jl == IF differs THEN jumped_left + (last_width - nw.curr_width)
              ELSE jumped_left
        lw == IF differs THEN nw.curr_width ELSE last_width
        h1 == [ClearRight(h, nw.curr_node) EXCEPT ![nw.curr_node].width = jl]
    IN  IF differs /\ last_width < nw.curr_width
        THEN [panic |-> TRUE, heap |-> h]
        ELSE PopMaxLoop(h1, frontier, idx - 1, last_node, lw, jl)

\* Fault injection for DropRow: the last node of the row, its positive
\* sentinel, is not freed.
RECURSIVE DropRowLeaksLast(_, _)
DropRowLeaksLast(h, cur) ==
    IF h[cur].right # Null THEN DropRowLeaksLast(Free(h, cur), h[cur].right)
    ELSE h

\* Drop for SkipList, from the row whose left sentinel is left: every node
\* of the row is freed left to right, then the row below
RECURSIVE DropRow(_, _)
DropRow(h, cur) ==
    IF h[cur].right # Null THEN DropRow(Free(h, cur), h[cur].right)
    ELSE Free(h, cur)

RECURSIVE DropFrom(_, _)
DropFrom(h, left) ==
    LET next_down == h[left].down
        h1 == DropRow(h, left)
    IN  IF next_down # Null THEN DropFrom(h1, next_down) ELSE h1

DropList(h, top) == DropFrom(h, top)

\* The addresses the calls of drop(Box::from_raw(..)) are handed, in the
\* order of the calls; Null stands for an address that is not allocated
\* when it is dropped.

\* Drop for SkipList, one row
RECURSIVE DropRowOrder(_, _)
DropRowOrder(h, cur) ==
    IF cur \notin DOMAIN h THEN <<Null>>
    ELSE IF h[cur].right # Null
    THEN <<cur>> \o DropRowOrder(Free(h, cur), h[cur].right)
    ELSE <<cur>>

\* Drop for SkipList, from the row whose left sentinel is left
RECURSIVE DropOrderFrom(_, _)
DropOrderFrom(h, left) ==
    IF left \notin DOMAIN h THEN <<Null>>
    ELSE LET next_down == h[left].down
             row == DropRowOrder(h, left)
         IN  IF next_down # Null /\ Null \notin {row[i] : i \in 1..Len(row)}
             THEN row \o DropOrderFrom(DropRow(h, left), next_down)
             ELSE row

DropOrder(h, top) == DropOrderFrom(h, top)

\* Node::clear_right
RECURSIVE ClearRightFreed(_, _)
ClearRightFreed(h, p) ==
    LET right == h[p].right IN
    IF right = Null THEN <<>>
    ELSE IF right \notin DOMAIN h THEN <<Null>>
    ELSE IF IsPosInf(h[right].value) THEN <<>>
    ELSE <<right>>
         \o ClearRightFreed(Free([h EXCEPT ![p].right = h[right].right], right), p)

\* The loops of pop_max over the frontier, bottom row first
RECURSIVE PopMaxFreedLoop(_, _, _)
PopMaxFreedLoop(h, frontier, idx) ==
    IF idx = 0 THEN <<>>
    ELSE ClearRightFreed(h, frontier[idx].curr_node)
         \o PopMaxFreedLoop(ClearRight(h, frontier[idx].curr_node),
                            frontier, idx - 1)

\* SkipList::pop_max
PopMaxFreed(h, top, ln, count) ==
    IF ln = 0 \/ count = 0 THEN <<>>
    ELSE IF count >= ln THEN DropOrder(h, top)
    ELSE LET at == AtIndexOp(h, top, ln, ln - count)
             frontier == PathTo(h, top, at.ret.v).path
         IN  PopMaxFreedLoop(h, frontier, Len(frontier))

\* The loop of remove
RECURSIVE RemoveFreed(_, _, _)
RemoveFreed(h, cur, item) ==
    LET it == LeftBiasIterNext(h, cur, item) IN
    IF it.panic \/ h[it.node].right = Null THEN <<>>
    ELSE
    LET node == it.node
        right == h[node].right
    IN  IF right \notin DOMAIN h THEN <<Null>>
        ELSE
        LET hit == EqItem(h[right].value, item)
            h2 == IF hit
                  THEN Free([h EXCEPT ![node].right = h[right].right], right)
                  ELSE h
            f == IF hit THEN <<right>> ELSE <<>>
        IN  IF it.finished THEN f
            ELSE f \o RemoveFreed(h2, it.curr_node, item)

\* pop_max when count >= len(): everything iter_all() yields is returned and
\* the list is replaced by SkipList::new(), the old one being dropped
PopMaxAll(h, top, ht, ln) ==
    LET all == IterAllOp(h, top) IN
    IF all.panic
    THEN [panic |-> TRUE, ret |-> <<>>, heap |-> h, top_left |-> top,
          height |-> ht, len |-> ln]
    ELSE [panic |-> FALSE, ret |-> all.items,
          heap |-> NewList.heap @@ DropList(h, top),
          top_left |-> NewList.top_left,
          height |-> NewList.height, len |-> NewList.len]

\* pop_max when 0 < count < len(): the bottom row is cut after the node
\* before at_index(len - count), then every row of the frontier above it
PopMaxSome(h, top, ht, ln, count) ==
    LET boom == [panic |-> TRUE, ret |-> <<>>, heap |-> h, top_left |-> top,
                 height |-> ht, len |-> ln]
        at == AtIndexOp(h, top, ln, ln - count)
    IN
    IF at.panic \/ ~at.ret.some THEN boom
    ELSE
    LET ele_at == at.ret.v
        frontier == PathTo(h, top, ele_at)
    IN
    IF frontier.panic \/ Len(frontier.path) = 0 THEN boom
    ELSE
    LET last_value == frontier.path[Len(frontier.path)]
        first == h[last_value.curr_node].right
    IN
    IF first = Null THEN boom
    ELSE
    LET ret == NodeRightIter(h, first)
        h1 == ClearRight(h, last_value.curr_node)
        r == PopMaxLoop(h1, frontier.path, Len(frontier.path) - 1,
                        last_value.curr_node, last_value.curr_width, 1)
    IN  IF ret.panic \/ r.panic THEN boom
        ELSE [panic |-> FALSE, ret |-> ret.items, heap |-> r.heap,
              top_left |-> top, height |-> ht, len |-> ln - count]

\* Fault injection for PopMaxOp: the list is only reset when count exceeds
\* len(), as the doc comment of pop_max words it.
PopMaxOpStrictCount(h, top, ht, ln, count) ==
    IF ln = 0 \/ count = 0
    THEN [panic |-> FALSE, ret |-> <<>>, heap |-> h, top_left |-> top,
          height |-> ht, len |-> ln]
    ELSE IF count > ln THEN PopMaxAll(h, top, ht, ln)
    ELSE PopMaxSome(h, top, ht, ln, count)

\* Fault injection for PopMaxOp: no early return for an empty list or a
\* count of 0.
PopMaxOpNoEarlyReturn(h, top, ht, ln, count) ==
    IF count >= ln THEN PopMaxAll(h, top, ht, ln)
    ELSE PopMaxSome(h, top, ht, ln, count)

\* SkipList::pop_max
PopMaxOp(h, top, ht, ln, count) ==
    IF ln = 0 \/ count = 0
    THEN [panic |-> FALSE, ret |-> <<>>, heap |-> h, top_left |-> top,
          height |-> ht, len |-> ln]
    ELSE IF count >= ln THEN PopMaxAll(h, top, ht, ln)
    ELSE PopMaxSome(h, top, ht, ln, count)

-----------------------------------------------------------------------------
(* FromIterator, From and PartialEq *)

\* Fault injection for FromIterLoop: the loop stops at the first item that
\* insert rejects.
RECURSIVE FromIterLoopStopsAtDuplicate(_, _, _, _)
FromIterLoopStopsAtDuplicate(sk, src, i, lvls) ==
    IF i > Len(src) \/ sk.panic THEN sk
    ELSE LET r == InsertOp(sk.heap, sk.top_left, sk.height, sk.len,
                           src[i], lvls[src[i]])
             sk1 == [panic |-> r.panic, heap |-> r.heap, top_left |-> sk.top_left,
                     height |-> r.height, len |-> r.len]
         IN  IF ~r.ret THEN sk1
             ELSE FromIterLoopStopsAtDuplicate(sk1, src, i + 1, lvls)

\* The loop of from_iter: sk.insert(item) for each item of the source in
\* turn. lvls[x] is the level get_level draws when x is first inserted.
RECURSIVE FromIterLoop(_, _, _, _)
FromIterLoop(sk, src, i, lvls) ==
    IF i > Len(src) \/ sk.panic THEN sk
    ELSE LET r == InsertOp(sk.heap, sk.top_left, sk.height, sk.len,
                           src[i], lvls[src[i]])
         IN  FromIterLoop([panic |-> r.panic, heap |-> r.heap,
                           top_left |-> sk.top_left, height |-> r.height,
                           len |-> r.len],
                          src, i + 1, lvls)

\* FromIterator::from_iter and From::from
FromIterOp(src, lvls) ==
    FromIterLoop([panic |-> FALSE, heap |-> NewList.heap,
                  top_left |-> NewList.top_left, height |-> NewList.height,
                  len |-> NewList.len],
                 src, 1, lvls)

\* Fault injection for EqOp: the lengths are not compared.
EqOpZipOnly(h1, top1, ln1, h2, top2, ln2) ==
    LET l == IterAllOp(h1, top1)
        r == IterAllOp(h2, top2)
        n == IF Len(l.items) <= Len(r.items) THEN Len(l.items) ELSE Len(r.items)
    IN  [panic |-> l.panic \/ r.panic,
         ret |-> \A i \in 1..n : l.items[i] = r.items[i]]

\* PartialEq::eq: the lengths, then the zip of the two iter_all()
EqOp(h1, top1, ln1, h2, top2, ln2) ==
    IF ln1 # ln2 THEN [panic |-> FALSE, ret |-> FALSE]
    ELSE LET l == IterAllOp(h1, top1)
             r == IterAllOp(h2, top2)
             n == IF Len(l.items) <= Len(r.items) THEN Len(l.items)
                  ELSE Len(r.items)
         IN  [panic |-> l.panic \/ r.panic,
              ret |-> \A i \in 1..n : l.items[i] = r.items[i]]

-----------------------------------------------------------------------------
(* The state machine *)

NoCall == [op |-> "new", arg |-> 0, ret |-> FALSE, popped |-> <<>>]

\* The second list before it is made
NoOther == [heap |-> NewList.heap, top_left |-> NewList.top_left,
            height |-> NewList.height, len |-> NewList.len,
            panic |-> FALSE, built |-> FALSE, src |-> <<>>]

Init ==
    /\ heap = NewList.heap
    /\ top_left = NewList.top_left
    /\ height = NewList.height
    /\ len = NewList.len
    /\ panicked = FALSE
    /\ elems = {}
    /\ balance = 0
    /\ last = NoCall
    /\ other = NoOther

Insert(item) ==
    /\ ~panicked
    /\ \E lvl \in Levels :
         LET r == InsertOp(heap, top_left, height, len, item, lvl) IN
         /\ heap' = r.heap
         /\ height' = r.height
         /\ len' = r.len
         /\ panicked' = r.panic
         /\ elems' = elems \cup {item}
         /\ balance' = IF r.ret THEN balance + 1 ELSE balance
         /\ last' = [op |-> "insert", arg |-> item, ret |-> r.ret, popped |-> <<>>]
         /\ UNCHANGED <<top_left, other>>

Remove(item) ==
    /\ ~panicked
    /\ LET r == RemoveOp(heap, top_left, len, item) IN
       /\ heap' = r.heap
       /\ len' = r.len
       /\ panicked' = r.panic
       /\ elems' = elems \ {item}
       /\ balance' = IF r.ret THEN balance - 1 ELSE balance
       /\ last' = [op |-> "remove", arg |-> item, ret |-> r.ret, popped |-> <<>>]
       /\ UNCHANGED <<top_left, height, other>>

PopMax(count) ==
    /\ ~panicked
    /\ LET r == PopMaxOp(heap, top_left, height, len, count) IN
       /\ heap' = r.heap
       /\ top_left' = r.top_left
       /\ height' = r.height
       /\ len' = r.len
       /\ panicked' = r.panic
       /\ elems' = elems \ {r.ret[i] : i \in 1..Len(r.ret)}
       /\ balance' = balance - Len(r.ret)
       /\ last' = [op |-> "pop_max", arg |-> count, ret |-> FALSE, popped |-> r.ret]
       /\ UNCHANGED other

\* Arguments of pop_max: 0, every count below the largest length, the
\* largest length itself and one above it
Counts == 0..(MaxVal + 1)

Next ==
    \/ \E item \in Vals : Insert(item)
    \/ \E item \in Vals : Remove(item)
    \/ \E count \in Counts : PopMax(count)

Spec == Init /\ [][Next]_vars

\* The sequences of insert and remove calls only
NextInsRem ==
    \/ \E item \in Vals : Insert(item)
    \/ \E item \in Vals : Remove(item)

SpecInsRem == Init /\ [][NextInsRem]_vars

-----------------------------------------------------------------------------
(* The queries on the current list *)

\* SkipList::len and SkipList::is_empty
LenOp(ln) == ln
IsEmptyOp(ln) == ln = 0

Contains(x) == ContainsOp(heap, top_left, x)
IndexOf(x) == IndexOfOp(heap, top_left, x)
AtIndex(i) == AtIndexOp(heap, top_left, len, i)
IterAll == IterAllOp(heap, top_left)
Range(a, b) == RangeOp(heap, top_left, a, b)
RangeWith(f) == RangeWithOp(heap, top_left, f)
RangeWithAny == RangeWithAnyOp(heap, top_left)
IndexRange(start, end) == IndexRangeOp(heap, top_left, start, end)

-----------------------------------------------------------------------------
(* Reference semantics: the sorted sequence of the ghost set elems *)

RECURSIVE SortedSeq(_)
SortedSeq(S) ==
    IF S = {} THEN <<>>
    ELSE LET m == CHOOSE x \in S : \A y \in S : x <= y
         IN  <<m>> \o SortedSeq(S \ {m})

Reference == SortedSeq(elems)

\* The values of the bottom row read link by link, sentinels included
RECURSIVE RowValues(_, _)
RowValues(h, cur) ==
    IF h[cur].right = Null THEN <<h[cur].value>>
    ELSE <<h[cur].value>> \o RowValues(h, h[cur].right)

BottomRow == RowValues(heap, Descend(heap, top_left))

Indices == 0..(MaxVal + 1)

-----------------------------------------------------------------------------
(* The second list *)

ItemsOf(seq) == {seq[i] : i \in 1..Len(seq)}

\* other = SkipList::from(src): one level is drawn for each distinct item
FromIter(src) ==
    /\ ~other.built
    /\ \E lvls \in [ItemsOf(src) -> Levels] :
         LET r == FromIterOp(src, lvls) IN
         other' = [heap |-> r.heap, top_left |-> r.top_left,
                   height |-> r.height, len |-> r.len, panic |-> r.panic,
                   built |-> TRUE, src |-> src]
    /\ UNCHANGED <<heap, top_left, height, len, panicked, elems, balance, last>>

\* The list is replaced by SkipList::from(other.iter_all()), as Deserialize
\* does with what Serialize wrote
Rebuild ==
    /\ other.built
    /\ ~other.panic
    /\ ~panicked
    /\ last.op = "new"
    /\ LET all == IterAllOp(other.heap, other.top_left) IN
       \E lvls \in [ItemsOf(all.items) -> Levels] :
         LET r == FromIterOp(all.items, lvls) IN
         /\ heap' = r.heap
         /\ top_left' = r.top_left
         /\ height' = r.height
         /\ len' = r.len
         /\ panicked' = (all.panic \/ r.panic)
         /\ elems' = ItemsOf(all.items)
         /\ balance' = r.len
         /\ last' = [op |-> "from_iter", arg |-> 0, ret |-> FALSE, popped |-> <<>>]
    /\ UNCHANGED other

\* The source sequences: every sequence of at most MaxSrc values, in any
\* order and with repetitions
MaxSrc == MaxVal
Sources == UNION {[1..n -> Vals] : n \in 0..MaxSrc}

\* A list made from a source sequence, then rebuilt from its iter_all()
NextFrom ==
    \/ \E src \in Sources : FromIter(src)
    \/ Rebuild

SpecFrom == Init /\ [][NextFrom]_vars

\* A list made by any calls of insert, remove and pop_max, next to a list
\* made from an ascending source sequence with any column heights
SortedSources == {SortedSeq(S) : S \in SUBSET Vals}

NextEq ==
    \/ ~other.built /\ \E item \in Vals : Insert(item)
    \/ ~other.built /\ \E item \in Vals : Remove(item)
    \/ ~other.built /\ \E count \in Counts : PopMax(count)
    \/ \E src \in SortedSources : FromIter(src)

SpecEq == Init /\ [][NextEq]_vars

Eq == EqOp(heap, top_left, len, other.heap, other.top_left, other.len)
EqFlipped == EqOp(other.heap, other.top_left, other.len, heap, top_left, len)

-----------------------------------------------------------------------------
(* Claims *)

\* C1: after any sequence of insert, remove and pop_max calls, iter_all()
\* yields exactly the elements inserted and not since removed or popped, each
\* once, in strictly ascending order; the bottom row is the negative
\* sentinel, those elements in ascending order, and the positive sentinel.
C1_IterAllSorted ==
    /\ IterAll = [panic |-> FALSE, items |-> Reference]
    /\ \A i \in 1..(Len(IterAll.items) - 1) : IterAll.items[i] < IterAll.items[i + 1]
    /\ BottomRow = <<NegInf>> \o [i \in 1..Len(Reference) |-> Value(Reference[i])]
                   \o <<PosInf>>

\* C1 witness: a pop_max that returned elements left at least two behind
C1_Witness ==
    /\ last.op = "pop_max" /\ Len(last.popped) >= 1
    /\ Len(IterAll.items) >= 2

\* C2: after any sequence of insert/remove calls, contains(&x) is true
\* exactly for the values inserted and not removed since.
C2_ContainsIffPresent ==
    \A x \in Args : Contains(x) = [panic |-> FALSE, ret |-> x \in elems]

\* C2 witness: a value was removed, contains says no for it and yes for another
C2_Witness ==
    /\ last.op = "remove" /\ last.ret
    /\ ~Contains(last.arg).ret
    /\ \E x \in Vals : Contains(x).ret

\* C3: after any sequence of insert/remove calls, len() is the number of
\* inserts that returned true minus the number of removes that returned
\* true, and the number of elements iter_all() yields; is_empty() is true
\* exactly when len() is 0.
C3_LenIsBalance ==
    /\ LenOp(len) = balance
    /\ LenOp(len) = Len(IterAll.items)
    /\ IsEmptyOp(len) <=> (LenOp(len) = 0)
    /\ IsEmptyOp(len) <=> (balance = 0)

\* C3 witness: a remove that returned false on a list of two elements
C3_Witness ==
    /\ last.op = "remove" /\ ~last.ret
    /\ LenOp(len) = 2 /\ ~IsEmptyOp(len)

\* C4: insert(x) with x in the list returns false and leaves len, height and
\* every node, link and width as they were.
C4_DuplicateInsert ==
    [][(last'.op = "insert" /\ last'.arg \in elems)
         => (last'.ret = FALSE /\ ~panicked' /\ UNCHANGED list)]_vars

\* C4 witness: an insert returned false on a list holding its argument
C4_Witness ==
    /\ last.op = "insert" /\ ~last.ret
    /\ Contains(last.arg).ret /\ len >= 2

\* C5: remove(&x) with x not in the list returns false and leaves len and
\* every link and width unchanged; with x in the list it returns true.
C5_RemoveAbsent ==
    [][(last'.op = "remove")
         => /\ ~panicked'
            /\ last'.ret = (last'.arg \in elems)
            /\ (last'.arg \notin elems => UNCHANGED list)]_vars

\* C5 witness: a remove returned false on a non-empty list
C5_Witness ==
    /\ last.op = "remove" /\ ~last.ret
    /\ len >= 1

\* C6: index_of(&x) is Some(number of elements smaller than x) when x is in
\* the list and None when it is not.
C6_IndexOfIsRank ==
    \A x \in Args :
        IndexOf(x) = [panic |-> FALSE,
                      ret |-> IF x \in elems
                              THEN Some(Cardinality({y \in elems : y < x}))
                              ELSE None]

\* C6 witness: after a pop_max that returned elements, some element has rank 1
C6_Witness ==
    /\ last.op = "pop_max" /\ Len(last.popped) >= 1
    /\ \E x \in Vals : IndexOf(x).ret = Some(1)

\* C7: at_index(i) is None for i >= len() and the i-th smallest element, the
\* element at position i of iter_all(), for i < len().
C7_AtIndexIsIth ==
    \A i \in Indices :
        /\ AtIndex(i) = [panic |-> FALSE,
                         ret |-> IF i < Len(Reference) THEN Some(Reference[i + 1])
                                 ELSE None]
        /\ i < LenOp(len) => AtIndex(i).ret = Some(IterAll.items[i + 1])
        /\ i >= LenOp(len) => AtIndex(i).ret = None

\* C7 witness: after a remove, at_index(1) is an element and at_index(2) is None
C7_Witness ==
    /\ last.op = "remove" /\ last.ret
    /\ AtIndex(1).ret.some /\ AtIndex(2).ret = None

\* C8: for all i in [0, len()), index_of(at_index(i).unwrap()) == Some(i).
C8_RankConsistency ==
    \A i \in Indices :
        i < LenOp(len) =>
            /\ AtIndex(i).ret.some /\ ~AtIndex(i).panic
            /\ IndexOf(AtIndex(i).ret.v) = [panic |-> FALSE, ret |-> Some(i)]

\* C8 witness: a pop_max that returned elements left at least two behind,
\* and the element at index 1 has rank 1
C8_Witness ==
    /\ LenOp(len) >= 2
    /\ last.op = "pop_max" /\ Len(last.popped) >= 1
    /\ IndexOf(AtIndex(1).ret.v).ret = Some(1)

\* C9: for a <= b, range(&a, &b) yields exactly the elements x with
\* a <= x <= b in ascending order, and nothing (without panicking) when the
\* list is empty or no element lies in [a, b].
InWindow(a, b) == SortedSeq({x \in elems : a <= x /\ x <= b})

C9_RangeIsFilter ==
    \A a \in Args : \A b \in Args :
        a <= b => Range(a, b) = [panic |-> FALSE, items |-> InWindow(a, b)]

\* C9 witness: one window holds some but not all elements, one lies below
\* the minimum and one above the maximum
C9_Witness ==
    /\ \E a \in Args : \E b \in Args :
         a <= b /\ Len(Range(a, b).items) >= 2 /\ Len(Range(a, b).items) < len
    /\ \E a \in Args : \E b \in Args :
         a <= b /\ elems # {} /\ Range(a, b).items = <<>>
           /\ \A x \in elems : b < x
    /\ \E a \in Args : \E b \in Args :
         a <= b /\ elems # {} /\ Range(a, b).items = <<>>
           /\ \A x \in elems : x < a

\* The classifier of the window [a, b]
Classifier(a, b) ==
    [x \in Vals |-> IF x < a THEN "SmallerThanRange"
                    ELSE IF x <= b THEN "InRange"
                    ELSE "LargerThanRange"]

Constantly(hint) == [x \in Vals |-> hint]

\* C10: range_with of the classifier of [a, b] yields the sequence of
\* range(&a, &b); a constantly InRange classifier yields every element, a
\* constantly SmallerThanRange or LargerThanRange one yields nothing.
C10_RangeWithIsRange ==
    /\ \A a \in Args : \A b \in Args :
         a <= b => /\ RangeWith(Classifier(a, b)) = Range(a, b)
                   /\ ~RangeWith(Classifier(a, b)).panic
    /\ RangeWith(Constantly("InRange")) = [panic |-> FALSE, items |-> Reference]
    /\ RangeWith(Constantly("SmallerThanRange")) = [panic |-> FALSE, items |-> <<>>]
    /\ RangeWith(Constantly("LargerThanRange")) = [panic |-> FALSE, items |-> <<>>]

\* C10 witness: a classifier of a window yields some but not all elements
C10_Witness ==
    \E a \in Args : \E b \in Args :
        /\ a <= b
        /\ Len(RangeWith(Classifier(a, b)).items) >= 1
        /\ Len(RangeWith(Classifier(a, b)).items) < len
        /\ RangeWith(Constantly("InRange")).items # <<>>


\* C11: range_with never panics, whatever the classifier answers and even
\* when it answers differently on each call: the descent never reaches the
\* unreachable!() arm, no absent right link is unwrapped, get_value is never
\* called on a sentinel, and the iterator stops after at most len() elements.
Hints == {"SmallerThanRange", "InRange", "LargerThanRange"}

C11_RangeWithNeverPanics ==
    ~panicked =>
        LET any == RangeWithAny IN
        /\ \A o \in any : ~o.panic /\ Len(o.items) <= LenOp(len)
        /\ \A f \in [Vals -> Hints] :
             LET r == RangeWith(f) IN ~r.panic /\ r \in any

\* A full list on which the calls can answer so that only the last element
\* is yielded, and so that the middle one alone is
C11_Witness ==
    /\ len = MaxVal
    /\ height > 3
    /\ \E o \in RangeWithAny : o.items = <<MaxVal>>
    /\ \E o \in RangeWithAny : o.items = <<2>>

\* C12: pop_max(k) with 0 < k < len() returns exactly the k largest
\* elements in ascending order, len() drops by exactly k, and what remains is
\* exactly the len() - k smallest elements, sorted and unchanged, on which
\* iter_all, contains, index_of and at_index agree.
C12_PopMaxSome ==
    [][(~panicked /\ last'.op = "pop_max"
        /\ 0 < last'.arg /\ last'.arg < len) =>
         LET k == last'.arg
             n == len
             sorted == SortedSeq(elems)
             kept == SubSeq(sorted, 1, n - k)
         IN  /\ ~panicked'
             /\ last'.popped = SubSeq(sorted, n - k + 1, n)
             /\ LenOp(len') = n - k
             /\ IterAllOp(heap', top_left') = [panic |-> FALSE, items |-> kept]
             /\ \A x \in Vals :
                  ContainsOp(heap', top_left', x) =
                    [panic |-> FALSE, ret |-> \E i \in 1..(n - k) : kept[i] = x]
             /\ \A i \in 1..(n - k) :
                  /\ IndexOfOp(heap', top_left', kept[i]) =
                       [panic |-> FALSE, ret |-> Some(i - 1)]
                  /\ AtIndexOp(heap', top_left', len', i - 1) =
                       [panic |-> FALSE, ret |-> Some(kept[i])]
             /\ \A i \in (n - k)..(MaxVal + 1) :
                  AtIndexOp(heap', top_left', len', i) =
                    [panic |-> FALSE, ret |-> None]
      ]_vars

\* pop_max(2) took the two largest of three elements off a list that has
\* grown a row
C12_Witness ==
    /\ last.op = "pop_max"
    /\ last.arg = 2
    /\ last.popped = <<MaxVal - 1, MaxVal>>
    /\ len = MaxVal - 2
    /\ height > 3

\* C13: pop_max(count) with count >= len() on a non-empty list returns every
\* element in ascending order and leaves the list as new() makes it: len()
\* is 0, the rows are three sentinel-only rows, and insert, contains and
\* index_of then behave as on a fresh list.
C13_PopMaxAll ==
    [][(~panicked /\ last'.op = "pop_max"
        /\ len > 0 /\ last'.arg >= len) =>
         /\ ~panicked'
         /\ last'.popped = SortedSeq(elems)
         /\ <<heap', top_left', height', len'>> =
              <<NewList.heap, NewList.top_left, NewList.height, NewList.len>>
         /\ LenOp(len') = 0
         /\ \A x \in Vals :
              /\ ContainsOp(heap', top_left', x) = [panic |-> FALSE, ret |-> FALSE]
              /\ IndexOfOp(heap', top_left', x) = [panic |-> FALSE, ret |-> None]
              /\ \A lvl \in Levels :
                   InsertOp(heap', top_left', height', len', x, lvl) =
                     InsertOp(NewList.heap, NewList.top_left, NewList.height,
                              NewList.len, x, lvl)
      ]_vars

\* pop_max with a count of at least the length emptied a list of two or more
C13_Witness ==
    /\ last.op = "pop_max"
    /\ Len(last.popped) >= 2
    /\ last.arg >= Len(last.popped)
    /\ len = 0
    /\ height = NewList.height

\* C14: pop_max(0) on any list, and pop_max(count) on an empty list, return
\* an empty vector and leave len, height and every node, link and width as
\* they were.
C14_PopMaxNothing ==
    [][(~panicked /\ last'.op = "pop_max"
        /\ (last'.arg = 0 \/ IsEmptyOp(len))) =>
         /\ ~panicked'
         /\ last'.popped = <<>>
         /\ UNCHANGED <<heap, top_left, height, len>>
      ]_vars

\* pop_max with a positive count on an empty list that had grown a row: the
\* row is still there
C14_Witness ==
    /\ last.op = "pop_max"
    /\ last.arg > 0
    /\ last.popped = <<>>
    /\ len = 0
    /\ height > NewList.height

-----------------------------------------------------------------------------
(* Index ranges *)

StartBounds ==
    {Unbounded} \cup {Included(i) : i \in Indices} \cup {Excluded(i) : i \in Indices}
EndBounds == StartBounds

\* The positions of 0..n-1 an index range selects
AfterStart(start, p) ==
    CASE start.kind = "Unbounded" -> TRUE
      [] start.kind = "Included" -> p >= start.idx
      [] start.kind = "Excluded" -> p > start.idx

BeforeEnd(end, p) ==
    CASE end.kind = "Unbounded" -> TRUE
      [] end.kind = "Included" -> p <= end.idx
      [] end.kind = "Excluded" -> p < end.idx

Selected(start, end) ==
    {p \in 0..(len - 1) : AfterStart(start, p) /\ BeforeEnd(end, p)}

\* The elements at the selected positions, ascending
Slice(start, end) ==
    SortedSeq({Reference[p + 1] : p \in Selected(start, end)})

\* C15: with both bounds within [0, len()] and start <= end, in the forms
\* .., s.., ..e, ..=e, s..e and s..=e, index_range yields exactly the
\* elements at the selected positions in ascending order, as slicing the
\* sorted vector of the elements does, whatever the heights of the columns.
C15_IndexRangeIsSlice ==
    ~panicked =>
        \A s \in {Unbounded} \cup {Included(i) : i \in 0..len},
           e \in {Unbounded} \cup {Included(j) : j \in 0..len}
                             \cup {Excluded(j) : j \in 0..len} :
            (s.kind = "Included" /\ e.kind # "Unbounded" => s.idx <= e.idx) =>
                IndexRange(s, e) = [panic |-> FALSE, items |-> Slice(s, e)]

\* A full list whose second column is taller than its first, from which
\* 1..=2 takes the last two elements and 1..2 the middle one
C15_Witness ==
    /\ len = MaxVal
    /\ Reference = <<1, 2, 3>>
    /\ Addr(2, 2) \in DOMAIN heap
    /\ Addr(2, 1) \notin DOMAIN heap
    /\ IndexRange(Included(1), Included(2)).items = <<2, 3>>
    /\ IndexRange(Included(1), Excluded(2)).items = <<2>>

\* C16: for a start bound Excluded(s) with s + 1 < len() and any end bound,
\* index_range yields exactly the elements at the positions p > s that
\* satisfy the end bound, starting at position s + 1, whatever the heights of
\* the columns at s and s + 1.
C16_ExclusiveStart ==
    ~panicked =>
        \A s \in Indices, e \in EndBounds :
            s + 1 < len =>
                IndexRange(Excluded(s), e) =
                    [panic |-> FALSE, items |-> Slice(Excluded(s), e)]

\* C17: index_range yields nothing whenever the range selects no position,
\* in particular for s..e with e < s < len(). Stated for the inclusive and
\* unbounded starts.
C17_EmptySelection ==
    ~panicked =>
        \A s \in {Unbounded} \cup {Included(i) : i \in Indices},
           e \in EndBounds :
            Selected(s, e) = {} =>
                IndexRange(s, e) = [panic |-> FALSE, items |-> <<>>]

-----------------------------------------------------------------------------
(* from_iter and == *)

\* C19: a list built from a source sequence, ordered or not, with or without
\* repetitions, is the list the calls of insert on new() give item by item:
\* iter_all() is the sorted source without repetitions and len() the number
\* of distinct items; a list rebuilt from the iter_all() of another is equal
\* to it.
C19_FromIter ==
    other.built =>
        /\ ~other.panic
        /\ IterAllOp(other.heap, other.top_left) =
             [panic |-> FALSE, items |-> SortedSeq(ItemsOf(other.src))]
        /\ LenOp(other.len) = Cardinality(ItemsOf(other.src))
        /\ \A x \in Vals :
             ContainsOp(other.heap, other.top_left, x) =
               [panic |-> FALSE, ret |-> x \in ItemsOf(other.src)]
        /\ last.op = "from_iter" =>
             /\ ~panicked
             /\ IterAll = IterAllOp(other.heap, other.top_left)
             /\ Eq = [panic |-> FALSE, ret |-> TRUE]
             /\ EqFlipped = [panic |-> FALSE, ret |-> TRUE]

\* A list made from an unordered source with a repetition, rebuilt with
\* other column heights
C19_Witness ==
    /\ other.built
    /\ other.src = <<MaxVal, 1, MaxVal>>
    /\ other.len = 2
    /\ last.op = "from_iter"
    /\ len = 2
    /\ heap # other.heap
    /\ height # other.height

\* C20: two lists are == exactly when they hold the same set of elements,
\* whatever the order of the insertions and removals that made them and
\* whatever their column heights and numbers of rows.
C20_EqIffSameElements ==
    (other.built /\ ~panicked /\ ~other.panic) =>
        /\ Eq = [panic |-> FALSE, ret |-> elems = ItemsOf(other.src)]
        /\ EqFlipped = [panic |-> FALSE, ret |-> elems = ItemsOf(other.src)]

\* Two equal lists of MaxVal elements, one left by a remove and with a row
\* more than the other
C20_Witness ==
    /\ other.built
    /\ last.op = "remove"
    /\ len = MaxVal - 1
    /\ elems = ItemsOf(other.src)
    /\ height > other.height
    /\ Eq.ret

-----------------------------------------------------------------------------
(* The shape of the node grid *)

\* The nodes of a row read link by link from cur, the last one included
RECURSIVE RowNodes(_, _)
RowNodes(h, cur) ==
    IF h[cur].right = Null THEN <<cur>>
    ELSE <<cur>> \o RowNodes(h, h[cur].right)

\* The left ends of the rows, top row first, and the rows themselves
RowHeads == VerticalIter(heap, top_left)
Rows == [i \in 1..Len(RowHeads) |-> RowNodes(heap, RowHeads[i])]

\* C21: new() gives an empty list (len() is 0, is_empty() holds) of exactly
\* three rows, each a negative sentinel of width 1 linked to a positive
\* sentinel and nothing else; iter_all() and every range iterator yield
\* nothing, contains and remove return false, index_of and at_index None.
C21_NewIsEmpty ==
    last.op = "new" =>
        /\ ~panicked
        /\ LenOp(len) = 0
        /\ IsEmptyOp(len)
        /\ height = 3
        /\ Len(RowHeads) = 3
        /\ Cardinality(DOMAIN heap) = 6
        /\ \A i \in 1..Len(Rows) :
             /\ Len(Rows[i]) = 2
             /\ heap[Rows[i][1]].value = NegInf
             /\ heap[Rows[i][1]].width = 1
             /\ heap[Rows[i][2]].value = PosInf
        /\ IterAll = [panic |-> FALSE, items |-> <<>>]
        /\ \A a \in Vals, b \in Vals :
             Range(a, b) = [panic |-> FALSE, items |-> <<>>]
        /\ \A f \in [Vals -> Hints] :
             RangeWith(f) = [panic |-> FALSE, items |-> <<>>]
        /\ \A s \in StartBounds, e \in EndBounds :
             IndexRange(s, e) = [panic |-> FALSE, items |-> <<>>]
        /\ \A x \in Vals :
             /\ Contains(x) = [panic |-> FALSE, ret |-> FALSE]
             /\ RemoveOp(heap, top_left, len, x) =
                  [panic |-> FALSE, ret |-> FALSE, heap |-> heap, len |-> len]
             /\ IndexOf(x) = [panic |-> FALSE, ret |-> None]
        /\ \A i \in Indices : AtIndex(i) = [panic |-> FALSE, ret |-> None]

\* The list as new() leaves it, before any other call
C21_Witness ==
    /\ last = NoCall
    /\ heap = NewList.heap
    /\ IsEmptyOp(len)

-----------------------------------------------------------------------------
(* The read-only calls *)

ReadOps == {"len", "is_empty", "contains", "index_of", "at_index", "iter_all",
            "range", "range_with", "index_range"}

\* The calls made: every operation, with arguments inside and outside the
\* list
Queries ==
    {[op |-> o, arg |-> <<>>] : o \in {"len", "is_empty", "iter_all"}}
    \cup {[op |-> o, arg |-> <<x>>] : o \in {"contains", "index_of"}, x \in Vals}
    \cup {[op |-> "at_index", arg |-> <<i>>] : i \in 0..MaxVal}
    \cup {[op |-> o, arg |-> <<a, a + 1>>] :
            o \in {"range", "range_with"}, a \in 1..(MaxVal - 1)}
    \cup {[op |-> "index_range", arg |-> <<s, e>>] :
            s \in {Unbounded, Included(1)}, e \in {Unbounded, Excluded(2)}}

\* Fault injection for ReadCall: iter_all() takes the elements out of the
\* list as it yields them.
ReadCallDrains(h, top, ht, ln, q) ==
    IF q.op = "iter_all"
    THEN LET r == IterAllOp(h, top) IN
         [panic |-> r.panic, ret |-> r.items,
          heap |-> IF ln = 0 THEN h ELSE PopMaxAll(h, top, ht, ln).heap]
    ELSE [panic |-> FALSE, ret |-> <<>>, heap |-> h]

\* A read-only call q on a list: what it returns, an iterator being
\* collected, and the nodes after it. The methods take &self and no
\* traversal writes to a node.
ReadCall(h, top, ht, ln, q) ==
    LET same(r, v) == [panic |-> r.panic, ret |-> v, heap |-> h] IN
    CASE q.op = "len" -> [panic |-> FALSE, ret |-> LenOp(ln), heap |-> h]
      [] q.op = "is_empty" -> [panic |-> FALSE, ret |-> IsEmptyOp(ln), heap |-> h]
      [] q.op = "contains" ->
           LET r == ContainsOp(h, top, q.arg[1]) IN same(r, r.ret)
      [] q.op = "index_of" ->
           LET r == IndexOfOp(h, top, q.arg[1]) IN same(r, r.ret)
      [] q.op = "at_index" ->
           LET r == AtIndexOp(h, top, ln, q.arg[1]) IN same(r, r.ret)
      [] q.op = "iter_all" ->
           LET r == IterAllOp(h, top) IN same(r, r.items)
      [] q.op = "range" ->
           LET r == RangeOp(h, top, q.arg[1], q.arg[2]) IN same(r, r.items)
      [] q.op = "range_with" ->
           LET r == RangeWithOp(h, top, Classifier(q.arg[1], q.arg[2]))
           IN  same(r, r.items)
      [] q.op = "index_range" ->
           LET r == IndexRangeOp(h, top, q.arg[1], q.arg[2]) IN same(r, r.items)

\* One read-only call; after a read-only call it is the same call again
Read(q) ==
    /\ ~panicked
    /\ last.op \in ReadOps => (last.op = q.op /\ last.arg = q.arg)
    /\ LET r == ReadCall(heap, top_left, height, len, q) IN
       /\ heap' = r.heap
       /\ panicked' = r.panic
       /\ last' = [op |-> q.op, arg |-> q.arg, ret |-> r.ret, popped |-> <<>>]
    /\ UNCHANGED <<top_left, height, len, elems, balance, other>>

\* The mutators, each list they leave being read
NextRead ==
    \/ last.op \notin ReadOps /\ \E item \in Vals : Insert(item)
    \/ last.op \notin ReadOps /\ \E item \in Vals : Remove(item)
    \/ last.op \notin ReadOps /\ \E count \in Counts : PopMax(count)
    \/ \E q \in Queries : Read(q)

SpecRead == Init /\ [][NextRead]_vars

-----------------------------------------------------------------------------
(* Widths, rows and columns *)

\* The bottom-row position of a node value: 0 for the negative sentinel,
\* i + 1 for the i-th smallest element (from 0), len + 1 for the positive
\* sentinel
Pos(nv) ==
    CASE nv.kind = "NegInf" -> 0
      [] nv.kind = "PosInf" -> len + 1
      [] nv.kind = "Value" -> 1 + Cardinality({x \in elems : x < nv.v})

RECURSIVE SumSeq(_)
SumSeq(q) == IF q = <<>> THEN 0 ELSE Head(q) + SumSeq(Tail(q))

\* The widths of the nodes of a row that have a right neighbour
RowWidths(row) == [j \in 1..(Len(row) - 1) |-> heap[row[j]].width]

\* C23: after any calls of insert, remove and pop_max, the width of every
\* node that has a right neighbour, in every row, is the bottom-row position
\* of that neighbour minus its own; so every width is at least 1, every
\* bottom-row width is exactly 1, and no width subtraction of insert, remove
\* or pop_max underflows.
C23_WidthIsDistance ==
    /\ ~panicked
    /\ LET rows == Rows IN
       \A i \in 1..Len(rows) :
         \A j \in 1..(Len(rows[i]) - 1) :
            LET node == heap[rows[i][j]] IN
            /\ node.width = Pos(heap[node.right].value) - Pos(node.value)
            /\ node.width >= 1
            /\ i = Len(rows) => node.width = 1

\* A list left by the remove of one of its elements, an upper row of which
\* holds a link that spans two positions
C23_Witness ==
    /\ last.op = "remove"
    /\ last.ret
    /\ len = MaxVal - 1
    /\ \E i \in 2..(Len(Rows) - 1) :
         \E j \in 1..(Len(Rows[i]) - 1) : heap[Rows[i][j]].width = 2

\* C24: after any calls of insert, remove and pop_max, in every row, the
\* bottom row included, the widths of the nodes other than the positive
\* sentinel add up to len() + 1.
C24_RowWidthsSum ==
    ~panicked =>
        LET rows == Rows IN
        \A i \in 1..Len(rows) : SumSeq(RowWidths(rows[i])) = LenOp(len) + 1

\* A list of two elements left by a pop_max, with a row of two links and a
\* row of one
C24_Witness ==
    /\ last.op = "pop_max"
    /\ Len(last.popped) >= 1
    /\ len = 2
    /\ \E i \in 1..Len(Rows) : Len(Rows[i]) = 3
    /\ \E i \in 1..Len(Rows) : Len(Rows[i]) = 2

\* C25: after any calls of insert, remove and pop_max, every row starts
\* with the negative sentinel and ends with the positive sentinel, and the
\* element values between them increase strictly from left to right.
C25_RowsOrdered ==
    ~panicked =>
        LET rows == Rows IN
        \A i \in 1..Len(rows) :
            LET row == rows[i]
                n == Len(row)
            IN  /\ n >= 2
                /\ heap[row[1]].value = NegInf
                /\ heap[row[n]].value = PosInf
                /\ \A j \in 2..(n - 1) : heap[row[j]].value.kind = "Value"
                /\ \A j \in 2..(n - 2) :
                     heap[row[j]].value.v < heap[row[j + 1]].value.v

\* A full list with an upper row that holds two elements
C25_Witness ==
    /\ len = MaxVal
    /\ \E i \in 2..(Len(Rows) - 1) : Len(Rows[i]) = 4

\* The nodes of the rows
NodesOf(rows) ==
    UNION {{rows[i][j] : j \in 1..Len(rows[i])} : i \in 1..Len(rows)}

\* The row a node is in, counted from the top row
RowOf(rows, n) ==
    CHOOSE i \in 1..Len(rows) : \E j \in 1..Len(rows[i]) : rows[i][j] = n

\* The element values a row holds
ValuesOfRow(row) ==
    {heap[row[j]].value.v : j \in {k \in 1..Len(row) :
                                      heap[row[k]].value.kind = "Value"}}

\* The chain of down links from a node holds one value, goes through one
\* node of each row from the node's own row on, and ends in the bottom row
ColumnReachesBottom(rows, n) ==
    LET col == VerticalIter(heap, n) IN
    /\ \A k \in 1..Len(col) :
         /\ heap[col[k]].value = heap[n].value
         /\ RowOf(rows, col[k]) = RowOf(rows, n) + k - 1
    /\ RowOf(rows, col[Len(col)]) = Len(rows)

\* An element a row holds is in every row below it
RowsNested(rows) ==
    \A i \in 1..(Len(rows) - 1) :
        ValuesOfRow(rows[i]) \subseteq ValuesOfRow(rows[i + 1])

\* C26 as stated: the chain of down links from any node, the positive
\* sentinels included, ends in the bottom row.
C26_ColumnsFromAnyNode ==
    ~panicked =>
        LET rows == Rows IN
        /\ \A n \in NodesOf(rows) : ColumnReachesBottom(rows, n)
        /\ RowsNested(rows)

\* C26: after any calls of insert, remove and pop_max, following down links
\* from any node other than a positive sentinel reaches only nodes holding
\* the same value, one per row, ending in the bottom row, and a positive
\* sentinel has no down link; so an element present in some row is present
\* in every row below it.
C26_Columns ==
    ~panicked =>
        LET rows == Rows IN
        /\ \A n \in NodesOf(rows) :
             IF heap[n].value = PosInf
             THEN heap[n].down = Null
             ELSE ColumnReachesBottom(rows, n)
        /\ RowsNested(rows)

\* A list of at least two elements, one of them with a column of three
\* nodes
C26_Witness ==
    /\ ~panicked
    /\ len >= 2
    /\ \E n \in NodesOf(Rows) :
         /\ heap[n].value.kind = "Value"
         /\ Len(VerticalIter(heap, n)) = 3

\* The first assertion of ensure_invariants: the right neighbour of the
\* top-left sentinel is the positive sentinel
EnsureTopRowEmpty(h, top) ==
    h[top].right # Null /\ h[h[top].right].value = PosInf

\* The number of rows that hold the element x: the height of its column
ColumnHeight(rows, x) ==
    Cardinality({i \in 1..Len(rows) : x \in ValuesOfRow(rows[i])})

\* The height of the tallest element column, 0 on an empty list
TallestColumn(rows) ==
    LET hs == {ColumnHeight(rows, x) : x \in ValuesOfRow(rows[Len(rows)])}
    IN  IF hs = {} THEN 0 ELSE CHOOSE m \in hs : \A k \in hs : k <= m

\* C27: after any calls of insert, remove and pop_max, the top row holds no
\* element: the right neighbour of the top-left sentinel is the positive
\* sentinel, so the first assertion of ensure_invariants holds.
C27_TopRowEmpty ==
    /\ ~panicked
    /\ EnsureTopRowEmpty(heap, top_left)
    /\ ValuesOfRow(Rows[1]) = {}

\* An insert has just put a column into every row but the top one
C27_Witness ==
    /\ last.op = "insert"
    /\ last.ret
    /\ ColumnHeight(Rows, last.arg) = height - 1

\* C28 as stated: the number of rows is at least the height of the tallest
\* element column plus 2.
C28_TwoSpareRows ==
    ~panicked => Len(RowHeads) >= TallestColumn(Rows) + 2

\* C28: after any calls of insert, remove and pop_max, there is at least
\* one spare level above the tallest column: the number of rows is at least
\* the height of the tallest element column plus 1, and it is at least 3.
C28_OneSpareRow ==
    ~panicked =>
        LET rows == Rows IN
        /\ Len(rows) >= TallestColumn(rows) + 1
        /\ Len(rows) >= 3
        /\ height = Len(rows)

\* A list of more than three rows, the tallest column of which leaves only
\* the top row free
C28_Witness ==
    /\ ~panicked
    /\ len >= 1
    /\ height > 3
    /\ height = TallestColumn(Rows) + 1

-----------------------------------------------------------------------------
(* The left-biased descent *)

\* The node n is the one a left-biased descent to x yields in the row:
\* it is in the row, it is smaller than x or the negative sentinel, and its
\* right neighbour is greater than or equal to x or the positive sentinel
LeftOf(row, n, x) ==
    /\ \E j \in 1..Len(row) : row[j] = n
    /\ \/ heap[n].value = NegInf
       \/ heap[n].value.kind = "Value" /\ heap[n].value.v < x
    /\ heap[n].right # Null
    /\ \/ heap[heap[n].right].value = PosInf
       \/ /\ heap[heap[n].right].value.kind = "Value"
          /\ heap[heap[n].right].value.v >= x
    /\ x \in ValuesOfRow(row) => heap[heap[n].right].value = Value(x)

\* C29: on every reachable list and for every target, the left-biased
\* descent, with and without width tracking, yields exactly one node per
\* row from the top row to the bottom row and never reaches the
\* unreachable!() arm; each yielded node is smaller than the target or the
\* negative sentinel, its right neighbour is greater than or equal to the
\* target or the positive sentinel, and when the target is in a row the
\* yielded node of that row is its immediate left neighbour.
C29_LeftBiasDescent ==
    ~panicked =>
        LET rows == Rows IN
        \A x \in Args :
            LET p == PathTo(heap, top_left, x)
                q == IterLeft(heap, top_left, x)
            IN  /\ ~p.panic
                /\ ~q.panic
                /\ Len(q.nodes) = Len(rows)
                /\ Len(p.path) = Len(rows)
                /\ \A i \in 1..Len(rows) :
                     /\ p.path[i].curr_node = q.nodes[i]
                     /\ LeftOf(rows[i], q.nodes[i], x)

\* A present target in a row above the bottom row, with an element as its
\* left neighbour in that row
C29_Witness ==
    /\ ~panicked
    /\ \E x \in elems :
         \E i \in 2..(Len(Rows) - 1) :
            /\ x \in ValuesOfRow(Rows[i])
            /\ Len(IterLeft(heap, top_left, x).nodes) = Len(Rows)
            /\ heap[IterLeft(heap, top_left, x).nodes[i]].value.kind = "Value"

-----------------------------------------------------------------------------
(* The splice of insert *)

\* The list as insert leaves it after its growth step, before the path is
\* taken
GrownFor(lvl) ==
    IF (lvl - height) + 1 > 0
    THEN AddLevels(heap, top_left, height, len, (lvl - height) + 1).heap
    ELSE heap

\* C30: insert of an absent item with drawn height lvl creates exactly lvl
\* new nodes holding item, one in each of the bottom lvl rows, each spliced
\* immediately right of the path node of its row and linked down to the
\* new node of the row below (to none in the bottom row); in the rows above
\* no node is created and the width of the path node grows by exactly one;
\* len grows by one and insert returns true.
C30_InsertSplices ==
    ~panicked =>
        \A x \in Vals \ elems :
            \A lvl \in Levels :
                LET r == InsertOp(heap, top_left, height, len, x, lvl)
                    g == GrownFor(lvl)
                    p == PathTo(g, top_left, x).path
                    n == Len(p)
                    created == (DOMAIN r.heap) \ (DOMAIN g)
                    spliced == {r.heap[p[i].curr_node].right :
                                    i \in (n - lvl + 1)..n}
                IN  /\ ~r.panic
                    /\ r.ret
                    /\ r.len = len + 1
                    /\ n = r.height
                    /\ n > lvl
                    /\ (DOMAIN g) \subseteq (DOMAIN r.heap)
                    /\ Cardinality(created) = lvl
                    /\ spliced = created
                    /\ \A i \in 1..n :
                         LET pn == p[i].curr_node IN
                         IF i > n - lvl
                         THEN LET nn == r.heap[pn].right IN
                              /\ r.heap[nn].value = Value(x)
                              /\ r.heap[nn].right = g[pn].right
                              /\ r.heap[nn].down =
                                    IF i = n THEN Null
                                    ELSE r.heap[p[i + 1].curr_node].right
                              /\ r.heap[pn].width + r.heap[nn].width
                                    = g[pn].width + 1
                         ELSE /\ r.heap[pn].right = g[pn].right
                              /\ r.heap[pn].width = g[pn].width + 1
                    /\ \A a \in (DOMAIN g) \ {p[i].curr_node : i \in 1..n} :
                         r.heap[a] = g[a]

\* An insert has just linked a column of two or more nodes between two
\* elements and left at least two rows above it
C30_Witness ==
    /\ last.op = "insert"
    /\ last.ret
    /\ ColumnHeight(Rows, last.arg) >= 2
    /\ height >= ColumnHeight(Rows, last.arg) + 2
    /\ \E a, b \in elems : a < last.arg /\ last.arg < b

-----------------------------------------------------------------------------
(* The growth step of insert *)

\* The rows of a list, top row first, each from its left sentinel on
RowsOf(h, top) ==
    LET heads == VerticalIter(h, top)
    IN  [i \in 1..Len(heads) |-> RowNodes(h, heads[i])]

-----------------------------------------------------------------------------
(* The unlinking of remove *)

\* The nodes of a list that hold the element x
NodesHolding(h, x) == {a \in DOMAIN h : h[a].value = Value(x)}

\* C32: remove of a present item visits one path node per row from the top
\* row to the bottom row and takes one off its width in every row; in
\* exactly the rows where the right neighbour of the path node holds item it
\* adds the width of the neighbour to the path node, links the path node to
\* the neighbour's right neighbour and frees the neighbour; afterwards no
\* node holding item is left in any row, the nodes off the path are
\* untouched, the path nodes keep their value and down link, and len has
\* gone down by one.
C32_RemoveUnlinks ==
    ~panicked =>
        LET rows == Rows IN
        \A x \in elems :
            LET r == RemoveOp(heap, top_left, len, x)
                p == IterLeft(heap, top_left, x).nodes
                gone == NodesHolding(heap, x)
                after == RowsOf(r.heap, top_left)
            IN  /\ ~r.panic
                /\ r.ret
                /\ r.len = len - 1
                /\ Len(p) = Len(rows)
                /\ DOMAIN r.heap = (DOMAIN heap) \ gone
                /\ Len(after) = Len(rows)
                /\ \A i \in 1..Len(after) : x \notin
                       {r.heap[after[i][j]].value.v :
                           j \in {k \in 1..Len(after[i]) :
                                     r.heap[after[i][k]].value.kind = "Value"}}
                /\ \A i \in 1..Len(rows) :
                     LET pn == p[i]
                         right == heap[pn].right
                     IN  /\ \E j \in 1..Len(rows[i]) : rows[i][j] = pn
                         /\ r.heap[pn].value = heap[pn].value
                         /\ r.heap[pn].down = heap[pn].down
                         /\ IF right \in gone
                            THEN /\ r.heap[pn].width
                                       = heap[pn].width - 1 + heap[right].width
                                 /\ r.heap[pn].right = heap[right].right
                            ELSE /\ r.heap[pn].width = heap[pn].width - 1
                                 /\ r.heap[pn].right = right
                /\ \A a \in (DOMAIN r.heap) \ {p[i] : i \in 1..Len(p)} :
                     r.heap[a] = heap[a]

\* A remove has just succeeded on a list that still holds an element with
\* a column of two or more nodes, an element to its left and two or more
\* rows above the column
C32_Witness ==
    /\ last.op = "remove"
    /\ last.ret
    /\ \E x \in elems :
         /\ ColumnHeight(Rows, x) >= 2
         /\ height >= ColumnHeight(Rows, x) + 2
         /\ \E a \in elems : a < x

-----------------------------------------------------------------------------
(* Allocation *)

\* The nodes reached from the nodes of todo by right and down links; a link
\* to a node that is not allocated is reached and not followed
RECURSIVE ReachFrom(_, _, _)
ReachFrom(h, seen, todo) ==
    IF todo = {} THEN seen
    ELSE LET next == UNION {{h[a].right, h[a].down} \ {Null} :
                               a \in todo \cap DOMAIN h}
         IN  ReachFrom(h, seen \cup todo, next \ (seen \cup todo))

Reachable(h, top) == ReachFrom(h, {}, {top})

\* The members of a sequence
Members(q) == {q[i] : i \in 1..Len(q)}

\* Every drop of the sequence is of a node allocated at that time, and no
\* node is dropped twice
FreedOnce(q) ==
    /\ Null \notin Members(q)
    /\ Cardinality(Members(q)) = Len(q)
    /\ Members(q) \subseteq DOMAIN heap

\* C33: after every completed insert, remove and pop_max the allocated
\* nodes are exactly the nodes reachable from the top-left sentinel by
\* right and down links: none is leaked and no reachable link points to a
\* freed node; and no remove or pop_max frees a node twice: each frees
\* exactly the nodes that leave the heap, pop_max every node of every
\* popped element in every row once.
C33_AllocatedIsReachable ==
    /\ ~panicked
    /\ Reachable(heap, top_left) = DOMAIN heap
    /\ \A x \in elems :
         LET f == RemoveFreed(heap, top_left, x)
             r == RemoveOp(heap, top_left, len, x)
         IN  /\ FreedOnce(f)
             /\ Members(f) = NodesHolding(heap, x)
             /\ DOMAIN r.heap = (DOMAIN heap) \ Members(f)
    /\ \A count \in Counts :
         LET f == PopMaxFreed(heap, top_left, len, count)
             r == PopMaxOp(heap, top_left, height, len, count)
             popped == UNION {NodesHolding(heap, r.ret[i]) : i \in 1..Len(r.ret)}
         IN  /\ FreedOnce(f)
             /\ popped \subseteq Members(f)
             /\ IF len = 0 \/ count = 0 THEN f = <<>> /\ r.heap = heap
                ELSE IF count >= len
                THEN Members(f) = DOMAIN heap /\ r.heap = NewList.heap
                ELSE /\ Members(f) = popped
                     /\ DOMAIN r.heap = (DOMAIN heap) \ popped

\* A pop_max has just cut two elements off a list of more than three rows
\* and left an element
C33_Witness ==
    /\ last.op = "pop_max"
    /\ Len(last.popped) = 2
    /\ len >= 1
    /\ Cardinality(DOMAIN heap) = Cardinality(Reachable(heap, top_left))
    /\ height > 3

\* The rows one after the other, top row first
RECURSIVE Flatten(_)
Flatten(rows) ==
    IF rows = <<>> THEN <<>> ELSE Head(rows) \o Flatten(Tail(rows))

\* C34: dropping a list in any state reachable by insert, remove and
\* pop_max frees every node of every row, sentinels included, exactly once,
\* row by row from the top row and left to right within a row, and leaves
\* no node allocated; so does the drop of the old list in
\* pop_max(count >= len), which leaves only the nodes of the new list.
C34_DropFreesAll ==
    ~panicked =>
        LET q == DropOrder(heap, top_left) IN
        /\ FreedOnce(q)
        /\ q = Flatten(Rows)
        /\ Members(q) = DOMAIN heap
        /\ DOMAIN DropList(heap, top_left) = {}
        /\ \A count \in Counts :
             (len > 0 /\ count >= len) =>
                 LET r == PopMaxOp(heap, top_left, height, len, count) IN
                 /\ ~r.panic
                 /\ r.heap = NewList.heap

\* pop_max(count >= len) has just dropped a list of three elements and
\* more than three rows
C34_Witness ==
    /\ last.op = "pop_max"
    /\ Len(last.popped) = MaxVal
    /\ last.arg >= MaxVal
    /\ len = 0
    /\ height = 3
    /\ Cardinality(DOMAIN heap) = 6

-----------------------------------------------------------------------------
(* The traversal of at_index *)

\* C35: on every reachable list and for every index i < len(), the
\* traversal of at_index(i) ends after finitely many right and down steps,
\* never steps onto the positive sentinel, never unwraps an absent right
\* link, never reaches the unreachable!() arm and never calls get_value on a
\* sentinel: it returns the element at position i.
C35_AtIndexTraversal ==
    ~panicked =>
        \A i \in 0..(len - 1) :
            LET r == AtIndexOp(heap, top_left, len, i)
                t == AtIndexVisited(heap, top_left, i + 1)
            IN  /\ ~r.panic
                /\ r.ret = Some(Reference[i + 1])
                /\ t[1] = top_left
                /\ Cardinality(Members(t)) = Len(t)
                /\ Len(t) <= Cardinality(DOMAIN heap)
                /\ \A k \in 1..Len(t) : heap[t[k]].value # PosInf
                /\ \A k \in 1..(Len(t) - 1) :
                     t[k + 1] \in {heap[t[k]].right, heap[t[k]].down}
                /\ heap[t[Len(t)]].value = Value(Reference[i + 1])

\* A full list on which at_index goes right along an upper row onto an
\* element and then down its column
C35_Witness ==
    /\ ~panicked
    /\ len = MaxVal
    /\ \E i \in 0..(len - 1) :
         LET t == AtIndexVisited(heap, top_left, i + 1) IN
         \E k \in 2..(Len(t) - 1) :
            /\ heap[t[k]].value.kind = "Value"
            /\ t[k] = heap[t[k - 1]].right
            /\ t[k + 1] = heap[t[k]].down

-----------------------------------------------------------------------------
(* Consuming iteration *)

\* C36: into_iter over any list yields every element exactly once in
\* ascending order, the sequence iter_all() yields, and then None, nothing
\* on an empty list, and never calls get_value on a sentinel.
C36_IntoIterYieldsAll ==
    ~panicked =>
        LET r == IntoIterOp(heap, top_left) IN
        /\ ~r.panic
        /\ r.items = IterAll.items
        /\ r.items = Reference

-----------------------------------------------------------------------------
(* Two executions of one sequence of calls *)

\* The second list after a call, with what the call returned
Twin(h, top, ht, ln, panic, call) ==
    [heap |-> h, top_left |-> top, height |-> ht, len |-> ln,
     panic |-> panic, built |-> TRUE, src |-> <<>>, last |-> call]

\* insert(item) on both lists, get_level() drawn for each
TwinInsert(item) ==
    /\ ~panicked
    /\ ~other.panic
    /\ \E lvl \in Levels : \E lvl2 \in Levels :
         LET r == InsertOp(heap, top_left, height, len, item, lvl)
             r2 == InsertOp(other.heap, other.top_left, other.height,
                            other.len, item, lvl2)
         IN  /\ heap' = r.heap
             /\ height' = r.height
             /\ len' = r.len
             /\ panicked' = r.panic
             /\ elems' = elems \cup {item}
             /\ balance' = IF r.ret THEN balance + 1 ELSE balance
             /\ last' = [op |-> "insert", arg |-> item, ret |-> r.ret,
                         popped |-> <<>>]
             /\ other' = Twin(r2.heap, other.top_left, r2.height, r2.len,
                              r2.panic,
                              [op |-> "insert", arg |-> item, ret |-> r2.ret,
                               popped |-> <<>>])
             /\ UNCHANGED top_left

\* remove(item) on both lists
TwinRemove(item) ==
    /\ ~panicked
    /\ ~other.panic
    /\ LET r == RemoveOp(heap, top_left, len, item)
           r2 == RemoveOp(other.heap, other.top_left, other.len, item)
       IN  /\ heap' = r.heap
           /\ len' = r.len
           /\ panicked' = r.panic
           /\ elems' = elems \ {item}
           /\ balance' = IF r.ret THEN balance - 1 ELSE balance
           /\ last' = [op |-> "remove", arg |-> item, ret |-> r.ret,
                       popped |-> <<>>]
           /\ other' = Twin(r2.heap, other.top_left, other.height, r2.len,
                            r2.panic,
                            [op |-> "remove", arg |-> item, ret |-> r2.ret,
                             popped |-> <<>>])
           /\ UNCHANGED <<top_left, height>>

\* pop_max(count) on both lists
TwinPopMax(count) ==
    /\ ~panicked
    /\ ~other.panic
    /\ LET r == PopMaxOp(heap, top_left, height, len, count)
           r2 == PopMaxOp(other.heap, other.top_left, other.height,
                          other.len, count)
       IN  /\ heap' = r.heap
           /\ top_left' = r.top_left
           /\ height' = r.height
           /\ len' = r.len
           /\ panicked' = r.panic
           /\ elems' = elems \ {r.ret[i] : i \in 1..Len(r.ret)}
           /\ balance' = balance - Len(r.ret)
           /\ last' = [op |-> "pop_max", arg |-> count, ret |-> FALSE,
                       popped |-> r.ret]
           /\ other' = Twin(r2.heap, r2.top_left, r2.height, r2.len,
                            r2.panic,
                            [op |-> "pop_max", arg |-> count, ret |-> FALSE,
                             popped |-> r2.ret])

NextTwin ==
    \/ \E item \in Vals : TwinInsert(item)
    \/ \E item \in Vals : TwinRemove(item)
    \/ \E count \in Counts : TwinPopMax(count)

SpecTwin == Init /\ [][NextTwin]_vars

\* The classifiers range_with is specified for: below the window, then
\* inside it, then above it, as the values grow
HintRank(hint) ==
    CASE hint = "SmallerThanRange" -> 0
      [] hint = "InRange" -> 1
      [] hint = "LargerThanRange" -> 2

Monotone == {f \in [Vals -> Hints] :
                \A x \in Vals : \A y \in Vals :
                    x < y => HintRank(f[x]) <= HintRank(f[y])}

\* What the queries return on a list
Observe(h, top, ln) ==
    [len |-> LenOp(ln),
     is_empty |-> IsEmptyOp(ln),
     contains |-> [x \in Args |-> ContainsOp(h, top, x)],
     index_of |-> [x \in Args |-> IndexOfOp(h, top, x)],
     at_index |-> [i \in 0..MaxVal |-> AtIndexOp(h, top, ln, i)],
     iter_all |-> IterAllOp(h, top),
     range |-> [a \in Args |-> [b \in {c \in Args : a <= c} |->
                   RangeOp(h, top, a, b)]],
     range_with |-> [f \in Monotone |-> RangeWithOp(h, top, f)]]

\* What the index ranges return on a list
ObserveIndexRanges(h, top) ==
    [s \in StartBounds |-> [e \in EndBounds |-> IndexRangeOp(h, top, s, e)]]

\* C37: two executions of one sequence of insert, remove and pop_max calls
\* in which get_level returns different heights give the same return values
\* and the same results of len, contains, index_of, at_index, iter_all,
\* range, range_with of every classifier that partitions the values in
\* ascending order, the index ranges and ==.
C37_LevelsUnobservable ==
    other.built =>
        /\ panicked = other.panic
        /\ last = other.last
        /\ Observe(heap, top_left, len)
             = Observe(other.heap, other.top_left, other.len)
        /\ ObserveIndexRanges(heap, top_left)
             = ObserveIndexRanges(other.heap, other.top_left)
        /\ Eq = [panic |-> FALSE, ret |-> TRUE]
        /\ EqFlipped = [panic |-> FALSE, ret |-> TRUE]

-----------------------------------------------------------------------------
(* The number of rows *)

\* The rows counted link by link from the top-left sentinel
NumRows(h, top) == Len(VerticalIter(h, top))

\* C38: the number of rows is at least 3 in every reachable state; insert
\* never decreases it, remove never changes it, pop_max with
\* 0 < count < len never changes it, and only pop_max with count >= len on
\* a non-empty list resets it to 3.
C38_RowCount ==
    [][LET rows == NumRows(heap, top_left)
           rows1 == NumRows(heap', top_left')
       IN  /\ rows >= 3
           /\ rows1 >= 3
           /\ height = rows
           /\ height' = rows1
           /\ last'.op = "insert" => rows1 >= rows
           /\ last'.op = "remove" => rows1 = rows
           /\ last'.op = "pop_max" =>
                IF len > 0 /\ last'.arg >= len /\ last'.arg > 0
                THEN rows1 = 3
                ELSE rows1 = rows
           /\ rows1 < rows =>
                /\ last'.op = "pop_max"
                /\ len > 0
                /\ last'.arg >= len]_vars

\* The last element has just been removed from a list of more than three
\* rows, which keeps its rows
C38_Witness ==
    /\ last.op = "remove"
    /\ last.ret
    /\ len = 0
    /\ NumRows(heap, top_left) > 3
    /\ \A i \in 1..Len(Rows) : Len(Rows[i]) = 2

-----------------------------------------------------------------------------
(* The links of a node *)

\* The right link is absent exactly on the positive sentinels
RightAbsentOnlyAtEnd(rows) ==
    \A n \in NodesOf(rows) : heap[n].right = Null <=> heap[n].value = PosInf

\* The down link of n leads to the node of the same value in the row
\* directly below
DownIsBelow(rows, n) ==
    /\ heap[n].down # Null
    /\ heap[n].down \in DOMAIN heap
    /\ heap[heap[n].down].value = heap[n].value
    /\ \E j \in 1..Len(rows[RowOf(rows, n) + 1]) :
          rows[RowOf(rows, n) + 1][j] = heap[n].down

\* C39 as stated: the down link is absent only in the bottom row, and every
\* node above the bottom row, sentinels included, has a down link to the
\* node directly below it.
C39_LinksAbsentOnlyAtEdges ==
    ~panicked =>
        LET rows == Rows IN
        /\ NodesOf(rows) = DOMAIN heap
        /\ RightAbsentOnlyAtEnd(rows)
        /\ \A n \in NodesOf(rows) :
             IF RowOf(rows, n) = Len(rows)
             THEN heap[n].down = Null
             ELSE DownIsBelow(rows, n)

\* C39: in every reachable state the right link is absent only on the
\* positive sentinels, and the down link is absent only on the nodes of the
\* bottom row and on the positive sentinels of every row: every negative
\* sentinel and every element node in a row above the bottom row has a down
\* link to the node directly below it in the same column.
C39_LinksAbsentOnlyAtEdgesAndEnds ==
    ~panicked =>
        LET rows == Rows IN
        /\ NodesOf(rows) = DOMAIN heap
        /\ RightAbsentOnlyAtEnd(rows)
        /\ \A n \in NodesOf(rows) :
             IF RowOf(rows, n) = Len(rows) \/ heap[n].value = PosInf
             THEN heap[n].down = Null
             ELSE DownIsBelow(rows, n)

\* An element node of an upper row linked down, with a positive sentinel
\* as its right neighbour
C39_Witness ==
    /\ ~panicked
    /\ len >= 2
    /\ \E n \in NodesOf(Rows) :
         /\ heap[n].value.kind = "Value"
         /\ heap[n].down # Null
         /\ heap[heap[n].right].value = PosInf
         /\ heap[heap[n].right].down = Null

=============================================================================
